---- MODULE Spec2Model ----
(***************************************************************************)
(* A model of the release build of Santa Tracker (release(), the second    *)
(* program of src/static/scenes/railroad/js/elves-system.js, lines 79 to   *)
(* 527): catalog loading, the fanout of prod documents, the extraction of  *)
(* module entry points from the static HTML, the virtual loader handed to  *)
(* the bundler, and the modern and legacy passes over the bundler output.  *)
(*                                                                         *)
(* Text is a sequence of atoms.  An atom is a TLA+ string: "." and "/" are *)
(* the two characters the code inspects, every other atom is a run of      *)
(* characters that holds neither: "./u.js" is <<".", "/", "u", ".", "js">>.*)
(* A path that has been split is a sequence of segments, each a text.      *)
(***************************************************************************)
EXTENDS Integers, Sequences, FiniteSets, TLC

(***************************************************************************)
(* Bounds of the model.                                                    *)
(***************************************************************************)
MaxReports == 2
MaxScripts == 2
MaxSrcLen == 3

(***************************************************************************)
(* Text and path helpers (String.prototype.startsWith, path.join,          *)
(* path.resolve, path.relative, path.dirname of node).                     *)
(***************************************************************************)
StartsWith(s, p) ==
  /\ Len(s) >= Len(p)
  /\ SubSeq(s, 1, Len(p)) = p

\* s.split('/'): the segments between the separators, empty ones included.
RECURSIVE SplitFrom(_, _, _)
SplitFrom(s, k, cur) ==
  IF k > Len(s) THEN <<cur>>
  ELSE IF s[k] = "/" THEN <<cur>> \o SplitFrom(s, k + 1, <<>>)
  ELSE SplitFrom(s, k + 1, Append(cur, s[k]))

Split(s) == SplitFrom(s, 1, <<>>)

\* Segments joined by '/'.
RECURSIVE JoinSegs(_)
JoinSegs(segs) ==
  IF Len(segs) = 0 THEN <<>>
  ELSE IF Len(segs) = 1 THEN segs[1]
  ELSE segs[1] \o <<"/">> \o JoinSegs(Tail(segs))

\* path.normalize on split segments: drops '' and '.', lets '..' remove the
\* segment before it.  abs: the path is absolute, so '..' at the root is dropped;
\* in a relative path a leading '..' stays.
RECURSIVE NormFrom(_, _, _, _)
NormFrom(segs, k, acc, abs) ==
  IF k > Len(segs) THEN acc
  ELSE IF segs[k] = <<>> \/ segs[k] = <<".">> THEN NormFrom(segs, k + 1, acc, abs)
  ELSE IF segs[k] = <<".", ".">> THEN
    IF Len(acc) > 0 /\ acc[Len(acc)] # <<".", ".">>
      THEN NormFrom(segs, k + 1, SubSeq(acc, 1, Len(acc) - 1), abs)
    ELSE IF abs THEN NormFrom(segs, k + 1, acc, abs)
    ELSE NormFrom(segs, k + 1, Append(acc, segs[k]), abs)
  ELSE NormFrom(segs, k + 1, Append(acc, segs[k]), abs)

Normalize(segs, abs) == NormFrom(segs, 1, <<>>, abs)

IsAbsolute(s) == Len(s) > 0 /\ s[1] = "/"

\* The working directory of the build, the root of the repository.
Cwd == << <<"repo">> >>

\* path.resolve(a, b): the segments of the absolute path.  The rightmost absolute
\* argument wins, a relative one is taken from the working directory.
Resolve(a, b) ==
  IF IsAbsolute(b) THEN Normalize(Split(b), TRUE)
  ELSE IF IsAbsolute(a) THEN Normalize(Split(a) \o Split(b), TRUE)
  ELSE Normalize(Cwd \o Split(a) \o Split(b), TRUE)

\* The absolute path as text: '/' + segments joined by '/'.
AbsText(segs) == <<"/">> \o JoinSegs(segs)

\* path.join(a, b, c) for relative arguments: the normalized segments.
Join3(a, b, c) == Normalize(Split(a) \o Split(b) \o Split(c), FALSE)
Join2(a, b) == Normalize(Split(a) \o Split(b), FALSE)

\* path.dirname of a relative or absolute text.
Dirname(s) ==
  LET segs == Split(s) IN
  IF Len(segs) <= 1 THEN <<".">>
  ELSE IF Len(segs) = 2 /\ segs[1] = <<>> THEN <<"/">>
  ELSE JoinSegs(SubSeq(segs, 1, Len(segs) - 1))

\* Length of the longest common prefix of two segment lists.
RECURSIVE CommonLen(_, _, _)
CommonLen(a, b, k) ==
  IF k > Len(a) \/ k > Len(b) \/ a[k] # b[k] THEN k - 1
  ELSE CommonLen(a, b, k + 1)

\* path.relative(from, to): both are resolved, the common prefix is dropped, one
\* '..' stands for every segment left of from.
Relative(from, to) ==
  LET f == Resolve(<<".">>, from)
      t == Resolve(<<".">>, to)
      c == CommonLen(f, t, 1)
  IN JoinSegs([n \in 1..(Len(f) - c) |-> <<".", ".">>] \o SubSeq(t, c + 1, Len(t)))


\* path.basename of a text.
Basename(s) == LET segs == Split(s) IN segs[Len(segs)]

(***************************************************************************)
(* The inputs of one build run.  They are fixed by Init and never change.  *)
(*   yargs         the parsed options (lines 101-141)                      *)
(*   catalog       the languages i18n.all returns, in key order            *)
(*   scenes        the ids of scenes.json5, in key order                   *)
(*   prodOtherHtml the prod pages other than index.html, as globbed        *)
(*   ogImages      the scenes whose prod/images/og/<scene>.png exists      *)
(*   htmlInput     the static HTML documents, each with its script nodes   *)
(*   sources       what the compiling loader returns for a path            *)
(*   fsFiles       the module files filesystem lookup finds: path -> text  *)
(***************************************************************************)
VARIABLES yargs, catalog, scenes, prodOtherHtml, ogImages, htmlInput, sources,
          fsFiles

(***************************************************************************)
(* The state of release().                                                 *)
(*   pc              the position of release() (and of the driver's catch) *)
(*   exitCode        -1 while the process runs, 0 or 1 once it has ended   *)
(*   missingMessages the ledger: msgid -> set of languages                 *)
(*   reported        the (lang, msgid) pairs i18n.all has reported so far  *)
(*   nReports        how many reports were made, repeats included          *)
(*   langs           the object returned by i18n.all, as its key sequence  *)
(*   i, j            the positions of the enclosing and the inner loop     *)
(*   disk            the output tree: path -> content                      *)
(*   writeLog        every write made: who wrote what where                *)
(*   prodHtmlCount   the counter of line 274                               *)
(***************************************************************************)
VARIABLES pc, exitCode, missingMessages, reported, nReports, langs, i, j,
          disk, writeLog, prodHtmlCount

(***************************************************************************)
(* What the run has put on the console.                                    *)
(*   logs     the closing lines: "Done!" of line 521, the console.warn of  *)
(*            the error at line 525                                        *)
(*   summary  the missing-message lines of lines 512-518: msgid -> the     *)
(*            percentage and the languages shown                           *)
(***************************************************************************)
VARIABLES logs, summary

(***************************************************************************)
(* The state of the static build.                                          *)
(*   htmlDocuments         the documents read so far (indices of htmlInput)*)
(*   links                 the stylesheet links of the documents read,     *)
(*                         keyed by <<document, position>>: the href, and  *)
(*                         the text of the style tag that has replaced it  *)
(*   nodes                 the script nodes of the documents read, keyed   *)
(*                         by <<document, position>>, as mutated in place  *)
(*   entrypoints           the Map of line 334, in insertion order         *)
(*   requiredScriptSources the Set of line 336                             *)
(***************************************************************************)
VARIABLES htmlDocuments, links, nodes, entrypoints, requiredScriptSources

(***************************************************************************)
(* The state of the bundler and of the virtual loader handed to it.        *)
(*   virtualCache  the object of line 406: module id -> text               *)
(*   rootIdx       the next entry of the input whose id is to be resolved  *)
(*   requests      the resolveId(id, importer) calls not yet started       *)
(*   inflight      the resolveId calls suspended at the await of line 420  *)
(*   resolutions   what each finished request resolved to, and through     *)
(*                 which resolver                                          *)
(*   modules       the modules the bundler has loaded: id -> text          *)
(*   loaderCalls   how often the compiling loader was invoked for a path   *)
(*   firstLoad     what the first load(id) answered from the cache         *)
(*   loadMisses    the ids load(id) was asked for while not in the cache   *)
(*   rewritten     the ids whose cache entry was assigned again after a    *)
(*                 load of the id                                          *)
(*   generated     generated.output, in iteration order                    *)
(*   reads         what the two passes have read                           *)
(***************************************************************************)
VARIABLES virtualCache, rootIdx, requests, inflight, resolutions, modules,
          loaderCalls, firstLoad, loadMisses, rewritten, generated, reads

(***************************************************************************)
(* The state of an ElvesSystem (lines 11-75 of the same file).             *)
(*   readFromScene  the third argument of the constructor                  *)
(*   seconds        the seconds accumulated by update                      *)
(*   lastSpawn      the value of seconds at the latest spawn               *)
(*   nextElfIndex   the index of the sprite the next spawn takes           *)
(*   elves          this.elves: the sprites made by generateElves, each    *)
(*                  named by its image; empty when the field is not set    *)
(*   added          the sprites handed to placeholderScene.scene.add, in   *)
(*                  the order of the calls                                 *)
(*   updates        the number of update calls made                        *)
(***************************************************************************)
VARIABLES readFromScene, seconds, lastSpawn, nextElfIndex, elves, added, updates

elvesVars == <<readFromScene, seconds, lastSpawn, nextElfIndex, elves, added, updates>>

(***************************************************************************)
(* A call of one of the functions of the build script on its own.          *)
(*   args    the function called and its arguments                         *)
(*   result  what the call returned; kind "none" before the call           *)
(***************************************************************************)
VARIABLES args, result

callVars == <<args, result>>

(***************************************************************************)
(* One Object of the snowbox scene (src/unnamed/part_001).                 *)
(*   object  the fields of the Object: selectable, selected, mesh, body,   *)
(*           ghost, ghostHelper; sceneGhosts, the number of ghost meshes   *)
(*           that this.scene holds; threw, the methods that have thrown;   *)
(*           deleted, whether delete() has run to its end                  *)
(*   CONFIG  the configuration of the Object: DEBUG                        *)
(***************************************************************************)
VARIABLES object, CONFIG

objectVars == <<object, CONFIG>>

\* The state of the programs other than release().
asideVars == <<elvesVars, callVars, objectVars>>

inputVars == <<yargs, catalog, scenes, prodOtherHtml, ogImages, htmlInput, sources,
               fsFiles>>
catalogVars == <<missingMessages, reported, nReports, langs>>
fanoutVars == <<i, j, disk, writeLog, prodHtmlCount>>
extractVars == <<htmlDocuments, links, nodes, entrypoints, requiredScriptSources>>
resolverVars == <<virtualCache, rootIdx, requests, inflight, resolutions, modules,
                  loaderCalls, firstLoad, loadMisses, rewritten>>
bundleVars == <<generated, reads>>
consoleVars == <<logs, summary>>
releaseVars == <<inputVars, catalogVars, fanoutVars, extractVars, resolverVars,
                 bundleVars, consoleVars, pc, exitCode>>

LangOrder == <<"en", "fr", "de">>
Msgids == {"santatracker", "scene_icehockey", "constructor"}

\* The names every plain object answers `in` for: the properties of
\* Object.prototype.  None of them holds a Set.
PrototypeNames ==
  {"constructor", "toString", "valueOf", "hasOwnProperty", "isPrototypeOf",
   "propertyIsEnumerable", "toLocaleString", "__proto__", "__defineGetter__",
   "__defineSetter__", "__lookupGetter__", "__lookupSetter__"}
SceneOrder == << <<>>, <<"cast">>, <<"icehockey">> >>
PageOrder == << <<"prod", "/", "cast", ".", "html">>, <<"prod", "/", "error", ".", "html">> >>

Range(f) == {f[k] : k \in DOMAIN f}
SubSeqsOf(order) ==
  {SelectSeq(order, LAMBDA x : x \in S) : S \in SUBSET Range(order)}

\* scenes.json5: the descriptor stored under a scene id.
SceneInfo(id) ==
  IF id = <<"cast">>
    THEN [present |-> TRUE, video |-> TRUE, hasMsgid |-> FALSE, msgid |-> <<>>]
    ELSE [present |-> TRUE, video |-> FALSE, hasMsgid |-> FALSE, msgid |-> <<>>]

pathForLangLiteral(lang) ==
  IF lang = "en" THEN <<".">> ELSE <<"intl", "/", lang, "_ALL">>

pathForLang(lang) ==
  IF lang = yargs.defaultLang THEN <<".">> ELSE <<"intl", "/", lang, "_ALL">>

\* Lines 193-203 with the video flag looked at before the msgid key.
msgidForSceneVideoFirst(id, info) ==
  IF id = <<>> \/ ~info.present THEN <<"santatracker">>
  ELSE IF info.video THEN <<"scene_videoscene_">> \o id
  ELSE IF info.hasMsgid THEN info.msgid
  ELSE <<"scene_">> \o id

\* id is a text ('' is <<>>); info.present is false for a null or absent info.
msgidForScene(id, info) ==
  IF id = <<>> \/ ~info.present THEN <<"santatracker">>
  ELSE IF info.hasMsgid THEN info.msgid
  ELSE IF info.video THEN <<"scene_videoscene_">> \o id
  ELSE <<"scene_">> \o id

\* await write(target, content): the file is created or replaced.
WriteFile(d, target, content) ==
  [p \in DOMAIN d \cup {target} |-> IF p = target THEN content ELSE d[p]]

\* msgid in missingMessages (line 248), for the plain object of line 246: an own
\* key, or a name inherited from Object.prototype.
InLedgerObject(mm, msgid) == msgid \in DOMAIN mm \/ msgid \in PrototypeNames

\* Line 251 throws: missingMessages[msgid] is the inherited property, which has
\* no add().
MissingCallbackThrows(mm, lang, msgid) ==
  msgid \notin DOMAIN mm /\ msgid \in PrototypeNames

\* The callback handed to i18n.all (lines 247-252): the ledger after the call;
\* a call that throws leaves it as it was.
MissingCallback(mm, lang, msgid) ==
  IF MissingCallbackThrows(mm, lang, msgid) THEN mm
  ELSE LET withKey == IF InLedgerObject(mm, msgid) THEN mm
                      ELSE [m \in DOMAIN mm \cup {msgid} |->
                              IF m = msgid THEN {} ELSE mm[m]]
       IN [withKey EXCEPT ![msgid] = @ \cup {lang}]

\* Lines 253-255: is the default language a key of langs.
DefaultLangFoundAlways(ls) == TRUE

DefaultLangFound(ls) == yargs.defaultLang \in Range(ls)

\* Lines 256-262: with defaultOnly every other key is deleted.
OutputLangs(ls) ==
  IF yargs.defaultOnly THEN SelectSeq(ls, LAMBDA l : l = yargs.defaultLang)
  ELSE ls

\* Lines 524-527: the catch of the driver logs the error.
Caught(l) == l \cup {"console.warn(err)"}

(***************************************************************************)
(* Catalog loading.                                                        *)
(***************************************************************************)
\* Lines 239-246.
Mkdirs ==
  /\ pc = "start"
  /\ pc' = "catalog"
  /\ UNCHANGED <<asideVars, inputVars, consoleVars, catalogVars, fanoutVars, extractVars, resolverVars, bundleVars, exitCode>>

\* i18n.all reports one missing (lang, msgid) through the callback.  A throw of
\* the callback leaves i18n.all and release() and reaches the catch of lines
\* 524-527, which ends the process with code 1.
ReportMissing ==
  /\ pc = "catalog"
  /\ nReports < MaxReports
  /\ \E l \in Range(catalog), m \in Msgids :
       /\ missingMessages' = MissingCallback(missingMessages, l, m)
       /\ reported' = reported \cup {<<l, m>>}
       /\ IF MissingCallbackThrows(missingMessages, l, m)
            THEN /\ pc' = "failed"
                 /\ exitCode' = 1
                 /\ logs' = Caught(logs)
            ELSE UNCHANGED <<pc, exitCode, logs>>
  /\ nReports' = nReports + 1
  /\ UNCHANGED <<asideVars, inputVars, summary, fanoutVars, extractVars, resolverVars, bundleVars, langs>>

\* i18n.all returns; lines 253-263.  The throw of line 254 reaches the catch of
\* lines 524-527, which ends the process with code 1.
CatalogLoaded ==
  /\ pc = "catalog"
  /\ IF DefaultLangFound(catalog)
       THEN /\ langs' = OutputLangs(catalog)
            /\ pc' = "loaded"
            /\ exitCode' = exitCode
            /\ logs' = logs
       ELSE /\ langs' = catalog
            /\ pc' = "failed"
            /\ exitCode' = 1
            /\ logs' = Caught(logs)
  /\ UNCHANGED <<asideVars, inputVars, summary, fanoutVars, extractVars, resolverVars, bundleVars, missingMessages, reported, nReports>>


(***************************************************************************)
(* Document fanout.                                                        *)
(***************************************************************************)
DistProd == <<"dist", "/", "prod">>

\* The loop position after one pass of the inner loop over langs.
NextI == IF j < Len(langs) THEN i ELSE i + 1
NextJ == IF j < Len(langs) THEN j + 1 ELSE 1

\* Line 296: the social-sharing image of a scene, split at its separators.
OgImage(sceneName) ==
  << <<"prod">>, <<"images">>, <<"og">>, sceneName \o <<".", "png">> >>

\* Line 270: the files under prod/ other than prod/*.html and prod/manifest.json;
\* in the model these are the social-sharing images that exist.
prodAll == {OgImage(sceneName) : sceneName \in ogImages}

\* Lines 163-166 and 169: copy(p, path.join('dist', p)) has made its file.
copy(d, p) ==
  WriteFile(d, << <<"dist">> >> \o p, [kind |-> "copy", item |-> p, lang |-> ""])

\* The files of prodAll whose copy is made.
Copied == {w.item : w \in {x \in writeLog : x.kind = "copy"}}

\* Lines 265-271 up to the await of releaseAll: the scene registry is read and
\* one copy() per file of prodAll is started (lines 168-171).
ReleaseProdAssets ==
  /\ pc = "loaded"
  /\ pc' = "copying"
  /\ UNCHANGED <<asideVars, inputVars, consoleVars, catalogVars, fanoutVars, extractVars,
                 resolverVars, bundleVars, exitCode>>

\* One of the copies started at line 169 ends, in any order: its file is there.
CopyAsset ==
  /\ pc = "copying"
  /\ \E p \in prodAll \ Copied :
       /\ disk' = copy(disk, p)
       /\ writeLog' = writeLog \cup
            {[kind |-> "copy", item |-> p, lang |-> "", path |-> << <<"dist">> >> \o p]}
  /\ UNCHANGED <<asideVars, inputVars, consoleVars, catalogVars, extractVars, resolverVars,
                 bundleVars, prodHtmlCount, exitCode, pc, i, j>>

\* Line 271: every copy is made, Promise.all resolves and release() goes on.
AssetsReleased ==
  /\ pc = "copying"
  /\ prodAll \subseteq Copied
  /\ pc' = "pages"
  /\ i' = 1
  /\ j' = 1
  /\ UNCHANGED <<asideVars, inputVars, consoleVars, catalogVars, extractVars, resolverVars,
                 bundleVars, prodHtmlCount, exitCode, disk, writeLog>>

\* Lines 281-286: the target of a prod page.
PageTarget(htmlFile, lang) == Join3(DistProd, pathForLang(lang), Basename(htmlFile))

\* Lines 276-288, one pass of the inner loop.
WritePage ==
  /\ pc = "pages"
  /\ i <= Len(prodOtherHtml)
  /\ LET htmlFile == prodOtherHtml[i]
         lang == langs[j]
         target == PageTarget(htmlFile, lang)
     IN /\ disk' = WriteFile(disk, target,
                     [kind |-> "page", item |-> Basename(htmlFile), lang |-> lang])
        /\ writeLog' = writeLog \cup
             {[kind |-> "page", item |-> Basename(htmlFile), lang |-> lang,
               path |-> target]}
  /\ prodHtmlCount' = prodHtmlCount + 1
  /\ i' = NextI
  /\ j' = NextJ
  /\ UNCHANGED <<asideVars, inputVars, consoleVars, catalogVars, extractVars, resolverVars, bundleVars, pc, exitCode>>

\* The loop of line 276 ends.
PagesDone ==
  /\ pc = "pages"
  /\ i > Len(prodOtherHtml)
  /\ pc' = "scenes"
  /\ i' = 1
  /\ j' = 1
  /\ UNCHANGED <<asideVars, inputVars, consoleVars, catalogVars, extractVars, resolverVars, bundleVars, disk, writeLog, prodHtmlCount, exitCode>>

\* Line 313.
SceneFilename(sceneName) ==
  IF sceneName = <<>> THEN <<"index", ".", "html">> ELSE sceneName \o <<".", "html">>

\* Line 314.
SceneTarget(sceneName, lang) ==
  Join3(DistProd, pathForLang(lang), SceneFilename(sceneName))

\* Lines 292-310 with everything after line 296 done only when the image exists.
SceneDocumentImageFirst(sceneName, lang) ==
  [kind |-> "scene", item |-> sceneName, lang |-> lang,
   dataStatic |-> TRUE, dataVersion |-> TRUE,
   ogImage |-> sceneName \in ogImages,
   msgid |-> IF sceneName \in ogImages
               THEN msgidForScene(sceneName, SceneInfo(sceneName)) ELSE <<>>]

\* Lines 292-310 and 315: the document of a scene in a language.
SceneDocument(sceneName, lang) ==
  [kind |-> "scene", item |-> sceneName, lang |-> lang,
   dataStatic |-> TRUE, dataVersion |-> TRUE,
   ogImage |-> sceneName \in ogImages,
   msgid |-> msgidForScene(sceneName, SceneInfo(sceneName))]

\* Lines 291-319, one pass of the inner loop.
WriteScene ==
  /\ pc = "scenes"
  /\ i <= Len(scenes)
  /\ LET sceneName == scenes[i]
         lang == langs[j]
         target == SceneTarget(sceneName, lang)
     IN /\ disk' = WriteFile(disk, target, SceneDocument(sceneName, lang))
        /\ writeLog' = writeLog \cup
             {[kind |-> "scene", item |-> sceneName, lang |-> lang, path |-> target]}
  /\ prodHtmlCount' = prodHtmlCount + 1
  /\ i' = NextI
  /\ j' = NextJ
  /\ UNCHANGED <<asideVars, inputVars, consoleVars, catalogVars, extractVars, resolverVars, bundleVars, pc, exitCode>>

\* The loop of line 291 ends; line 321.
ScenesDone ==
  /\ pc = "scenes"
  /\ i > Len(scenes)
  /\ pc' = "manifest"
  /\ i' = 1
  /\ j' = 1
  /\ UNCHANGED <<asideVars, inputVars, consoleVars, catalogVars, extractVars, resolverVars, bundleVars, disk, writeLog, prodHtmlCount, exitCode>>

\* Line 329.
ManifestTarget(lang) == Join3(DistProd, pathForLang(lang), <<"manifest", ".", "json">>)

\* Lines 325-331, one pass of the loop.
WriteManifest ==
  /\ pc = "manifest"
  /\ j <= Len(langs)
  /\ LET lang == langs[j]
         target == ManifestTarget(lang)
     IN /\ disk' = WriteFile(disk, target,
                     [kind |-> "manifest", item |-> <<"manifest", ".", "json">>,
                      lang |-> lang])
        /\ writeLog' = writeLog \cup
             {[kind |-> "manifest", item |-> <<"manifest", ".", "json">>, lang |-> lang,
               path |-> target]}
  /\ j' = j + 1
  /\ UNCHANGED <<asideVars, inputVars, consoleVars, catalogVars, extractVars, resolverVars, bundleVars, pc, exitCode, i, prodHtmlCount>>

\* The loop of line 325 ends; lines 333-344.
ManifestDone ==
  /\ pc = "manifest"
  /\ j > Len(langs)
  /\ pc' = "extract"
  /\ i' = 1
  /\ j' = 1
  /\ UNCHANGED <<asideVars, inputVars, consoleVars, catalogVars, extractVars, resolverVars, bundleVars, disk, writeLog, prodHtmlCount, exitCode>>


(***************************************************************************)
(* Entry extraction.                                                       *)
(*                                                                         *)
(* A document of htmlInput is [file, styles, scripts]: styles are the hrefs *)
(* of its stylesheet links; a script node is [type, src, text], each a     *)
(* text, with <<>> for an absent attribute.                                *)
(***************************************************************************)
\* build/is-url.js: the text names a remote resource.
isUrl(s) == Len(s) > 0 /\ s[1] \in {"http:", "https:"}

\* Line 374 with the module type let through.
IsClassicOrModule(scriptNode) ==
  scriptNode.type \in {<<>>, <<"text/javascript">>, <<"module">>}

\* Line 374: a classic script.
IsClassic(scriptNode) ==
  scriptNode.type = <<>> \/ scriptNode.type = <<"text/javascript">>

\* Line 379: a module script.
IsModule(scriptNode) == scriptNode.type = <<"module">>

\* Lines 351-353: the scripts that are not remote.
IsLocal(scriptNode) == ~(scriptNode.src # <<>> /\ isUrl(scriptNode.src))

ImportStatement(src) == <<"import '">> \o src \o <<"';">>

\* Lines 381-390: the source text of the entry point of a module script.
EntryCode(scriptNode) ==
  IF scriptNode.src # <<>>
    THEN LET src == IF ~StartsWith(scriptNode.src, <<".">>)
                      THEN <<".", "/">> \o scriptNode.src
                      ELSE scriptNode.src
         IN ImportStatement(src)
    ELSE scriptNode.text

\* Line 391 without the size of the registry.
EntryIdFixed(size) == <<"e", "0", ".", "js">>

\* Line 391.
EntryId(size) == <<"e", ToString(size), ".", "js">>

\* Lines 373-376: the paths one document adds to requiredScriptSources.
RequiredOf(doc) ==
  {Join2(Dirname(doc.file), doc.scripts[k].src) :
     k \in {n \in DOMAIN doc.scripts :
              /\ IsLocal(doc.scripts[n])
              /\ doc.scripts[n].src # <<>>
              /\ IsClassic(doc.scripts[n])}}

\* Lines 380-397: the module scripts of document d from position k on are
\* registered after the entries eps.
RECURSIVE RegisterFrom(_, _, _, _)
RegisterFrom(doc, d, k, eps) ==
  IF k > Len(doc.scripts) THEN eps
  ELSE IF IsLocal(doc.scripts[k]) /\ IsModule(doc.scripts[k])
    THEN RegisterFrom(doc, d, k + 1,
           Append(eps, [id |-> EntryId(Len(eps)),
                        scriptNode |-> <<d, k>>,
                        dir |-> Dirname(doc.file),
                        code |-> EntryCode(doc.scripts[k])]))
  ELSE RegisterFrom(doc, d, k + 1, eps)

\* Lines 394-396: the node of a registered module script is cleared.
NodesOf(doc, d) ==
  [n \in {<<d, k>> : k \in DOMAIN doc.scripts} |->
     LET scriptNode == doc.scripts[n[2]] IN
     IF IsLocal(scriptNode) /\ IsModule(scriptNode)
       THEN [scriptNode EXCEPT !.src = <<>>, !.text = <<>>]
       ELSE scriptNode]

\* loader(path, {compile: true}) is called once more.
CountCall(calls, path) ==
  [p \in DOMAIN calls \cup {path} |->
     IF p = path THEN (IF p \in DOMAIN calls THEN calls[p] ELSE 0) + 1
     ELSE calls[p]]

\* loader(resolved, {compile: true}) of loader.js: the compiled body of a source
\* the loader knows, nothing otherwise.
LoaderKnows(resolved) == resolved \in DOMAIN sources
LoaderBody(resolved) == sources[resolved]

\* Lines 361-364: the first stylesheet link of doc from position k on that is
\* not remote; 0 when there is none.
NextLocalStyle(doc, k) ==
  LET local == {n \in DOMAIN doc.styles : n >= k /\ ~isUrl(doc.styles[n])}
  IN IF local = {} THEN 0 ELSE CHOOSE n \in local : \A m \in local : n <= m

\* Line 365: path.join(dir, styleLink.href).
StylePath(doc, n) == JoinSegs(Join2(Dirname(doc.file), doc.styles[n]))

\* Line 350: the stylesheet links of document d as read.
LinksOf(doc, d) ==
  [n \in {<<d, k>> : k \in DOMAIN doc.styles} |->
     [href |-> doc.styles[n[2]], inlined |-> FALSE, style |-> <<>>]]

\* Lines 351-353: the script nodes of document d as read.
ReadNodesOf(doc, d) ==
  [n \in {<<d, k>> : k \in DOMAIN doc.scripts} |-> doc.scripts[n[2]]]

\* Lines 371-397: the scripts of document i are catalogued and registered,
\* and the loop of line 345 goes to the next document.
ScanScripts ==
  LET doc == htmlInput[i] IN
  /\ requiredScriptSources' = requiredScriptSources \cup RequiredOf(doc)
  /\ entrypoints' = RegisterFrom(doc, i, 1, entrypoints)
  /\ nodes' = NodesOf(doc, i) @@ nodes
  /\ i' = i + 1
  /\ j' = 1
  /\ pc' = "extract"

\* Lines 345-398, one pass of the loop up to the first await of the loader at
\* line 365: the document is read; with no local stylesheet link it is scanned
\* and mutated at once.
ExtractDocument ==
  /\ pc = "extract"
  /\ i <= Len(htmlInput)
  /\ LET doc == htmlInput[i]
         n == NextLocalStyle(doc, 1)
     IN /\ htmlDocuments' = htmlDocuments \cup {i}
        /\ links' = LinksOf(doc, i) @@ links
        /\ IF n = 0
             THEN /\ ScanScripts
                  /\ loaderCalls' = loaderCalls
             ELSE /\ nodes' = ReadNodesOf(doc, i) @@ nodes
                  /\ j' = n
                  /\ pc' = "inline"
                  /\ loaderCalls' = CountCall(loaderCalls, StylePath(doc, n))
                  /\ UNCHANGED <<i, entrypoints, requiredScriptSources>>
  /\ UNCHANGED <<asideVars, inputVars, consoleVars, catalogVars, bundleVars, exitCode,
                 disk, writeLog, prodHtmlCount, virtualCache, rootIdx, requests,
                 inflight, resolutions, modules, firstLoad, loadMisses, rewritten>>

\* Lines 365-368: the loader has answered for stylesheet link j of document i.
\* With no answer line 367 reads out.body of undefined and throws; otherwise a
\* style tag with the body replaces the link, and the pass goes on to the next
\* local link, or to the scripts.
InlineStyle ==
  /\ pc = "inline"
  /\ LET doc == htmlInput[i]
         path == StylePath(doc, j)
         n == NextLocalStyle(doc, j + 1)
     IN IF ~LoaderKnows(path)
          THEN /\ pc' = "failed"
               /\ exitCode' = 1
               /\ logs' = Caught(logs)
               /\ UNCHANGED <<i, j, links, nodes, entrypoints, requiredScriptSources,
                              loaderCalls>>
          ELSE /\ links' = [links EXCEPT ![<<i, j>>] =
                              [href |-> @.href, inlined |-> TRUE,
                               style |-> LoaderBody(path)]]
               /\ UNCHANGED <<exitCode, logs>>
               /\ IF n = 0
                    THEN /\ ScanScripts
                         /\ loaderCalls' = loaderCalls
                    ELSE /\ j' = n
                         /\ loaderCalls' = CountCall(loaderCalls, StylePath(doc, n))
                         /\ UNCHANGED <<i, pc, nodes, entrypoints, requiredScriptSources>>
  /\ UNCHANGED <<asideVars, inputVars, summary, catalogVars, bundleVars, htmlDocuments,
                 disk, writeLog, prodHtmlCount, virtualCache, rootIdx, requests,
                 inflight, resolutions, modules, firstLoad, loadMisses, rewritten>>


(***************************************************************************)
(* The virtual loader (lines 406-429) and the bundler that drives it.      *)
(***************************************************************************)
\* entrypoints.has(id) and entrypoints.get(id).
IsEntryId(id) == \E k \in DOMAIN entrypoints : entrypoints[k].id = id
EntryOf(id) == entrypoints[CHOOSE k \in DOMAIN entrypoints : entrypoints[k].id = id]

\* The import specifiers of a module text, as the bundler's parser finds them:
\* the texts between "import '" and "';".
RECURSIVE ImportsFrom(_, _, _, _)
ImportsFrom(code, k, inside, cur) ==
  IF k > Len(code) THEN {}
  ELSE IF ~inside THEN
    ImportsFrom(code, k + 1, code[k] = "import '", <<>>)
  ELSE IF code[k] = "';" THEN {cur} \cup ImportsFrom(code, k + 1, FALSE, <<>>)
  ELSE ImportsFrom(code, k + 1, TRUE, Append(cur, code[k]))

ImportsOf(code) == ImportsFrom(code, 1, FALSE, <<>>)

\* An assignment virtualCache[key] = text.
CacheAppend(cache, key, text) ==
  [m \in DOMAIN cache \cup {key} |->
     IF m = key THEN (IF key \in DOMAIN cache THEN cache[key] ELSE <<>>) \o text
     ELSE cache[m]]

\* Lines 412 and 422 without the assignment.
CacheSkip(cache, key, text) == cache

CacheStore(cache, key, text) ==
  [m \in DOMAIN cache \cup {key} |-> IF m = key THEN text ELSE cache[m]]

\* Line 417 with the directory of the importer taken for every importer.
ResolvedPathNoEntryDir(id, importer) ==
  AbsText(Resolve(Dirname(importer), id))

\* Lines 416-417: the absolute path of id as imported from importer.
ResolvedPath(id, importer) ==
  LET base == IF IsEntryId(importer) THEN EntryOf(importer).dir
              ELSE Dirname(importer)
  IN AbsText(Resolve(base, id))

\* Line 427.
LoadResult(id) == virtualCache[id]

\* Filesystem lookup, the resolver that line 433 puts before the virtual
\* loader: a relative id is looked for from the directory of the importer, a
\* bare name among the packages of node_modules; the lookup declines what is
\* not there, and the id of an entry (importer undefined).
FsPath(id, importer) ==
  IF StartsWith(id, <<".">>)
    THEN AbsText(Resolve(Dirname(importer), id))
    ELSE <<"/", "repo", "/", "node_modules", "/">> \o id
FsFinds(id, importer) == FsPath(id, importer) \in DOMAIN fsFiles
FsSource(path) == fsFiles[path]

\* The ids the bundler has been given by a resolver as the ids of modules.
KnownIds ==
  {entrypoints[k].id : k \in 1..(rootIdx - 1)}
    \cup {r.resolved : r \in {x \in resolutions : x.via # "external"}}

\* rollup.rollup called from inside the loop of line 345.
StartRollupEarly ==
  /\ pc = "extract"
  /\ pc' = "rollup"
  /\ rootIdx' = 1
  /\ UNCHANGED <<asideVars, inputVars, consoleVars, catalogVars, fanoutVars, extractVars, bundleVars,
                 exitCode, virtualCache, requests, inflight, resolutions, modules,
                 loaderCalls, firstLoad, loadMisses, rewritten>>

\* Lines 399-434: rollup.rollup is called with every entry id as input.
StartRollup ==
  /\ pc = "extract"
  /\ i > Len(htmlInput)
  /\ pc' = "rollup"
  /\ rootIdx' = 1
  /\ UNCHANGED <<asideVars, inputVars, consoleVars, catalogVars, fanoutVars, extractVars, bundleVars, exitCode,
                 virtualCache, requests, inflight, resolutions, modules, loaderCalls,
                 firstLoad, loadMisses, rewritten>>

\* Lines 410-414: resolveId(id, undefined) for the next entry of the input.
ResolveRoot ==
  /\ pc = "rollup"
  /\ rootIdx <= Len(entrypoints)
  /\ LET id == entrypoints[rootIdx].id
         data == EntryOf(id)
     IN /\ virtualCache' = CacheStore(virtualCache, id, data.code)
        /\ rewritten' = rewritten \cup ({id} \cap DOMAIN firstLoad)
  /\ rootIdx' = rootIdx + 1
  /\ UNCHANGED <<asideVars, inputVars, consoleVars, catalogVars, fanoutVars, extractVars, bundleVars, exitCode,
                 pc, requests, inflight, resolutions, modules, loaderCalls, firstLoad,
                 loadMisses>>

\* Lines 426-428: load(id) for an id a resolver returned.  What the cache does
\* not hold the bundler reads from the file of that name, and the build fails
\* when there is none.  The first load of a module makes the bundler parse it
\* and ask for the resolution of its imports.
Load ==
  /\ pc = "rollup"
  /\ \E id \in KnownIds :
       LET cached == id \in DOMAIN virtualCache IN
       /\ firstLoad' = IF cached /\ id \notin DOMAIN firstLoad
                         THEN (id :> LoadResult(id)) @@ firstLoad ELSE firstLoad
       /\ loadMisses' = IF cached THEN loadMisses ELSE loadMisses \cup {id}
       /\ IF ~cached /\ id \notin DOMAIN fsFiles
            THEN /\ pc' = "failed"
                 /\ exitCode' = 1
                 /\ logs' = Caught(logs)
                 /\ UNCHANGED <<modules, requests>>
            ELSE /\ UNCHANGED <<pc, exitCode, logs>>
                 /\ IF id \in DOMAIN modules
                      THEN UNCHANGED <<modules, requests>>
                      ELSE LET text == IF cached THEN LoadResult(id) ELSE FsSource(id)
                           IN /\ modules' = (id :> text) @@ modules
                              /\ requests' = requests \cup
                                   {[id |-> x, importer |-> id] : x \in ImportsOf(text)}
  /\ UNCHANGED <<asideVars, inputVars, summary, catalogVars, fanoutVars, extractVars, bundleVars,
                 virtualCache, rootIdx, inflight, resolutions, loaderCalls,
                 rewritten>>

\* Line 433: filesystem lookup is asked before the virtual loader, and what it
\* finds never reaches lines 416-425.
FsResolve ==
  /\ pc = "rollup"
  /\ \E r \in requests :
       /\ FsFinds(r.id, r.importer)
       /\ requests' = requests \ {r}
       /\ resolutions' = resolutions \cup
            {[id |-> r.id, importer |-> r.importer,
              resolved |-> FsPath(r.id, r.importer), via |-> "fs"]}
  /\ UNCHANGED <<asideVars, inputVars, consoleVars, catalogVars, fanoutVars, extractVars, bundleVars,
                 exitCode, pc, virtualCache, rootIdx, inflight, modules, loaderCalls,
                 firstLoad, loadMisses, rewritten>>

\* Lines 416-420: resolveId(id, importer), for a request filesystem lookup has
\* declined, runs up to the await of the loader.
LoaderCall ==
  /\ pc = "rollup"
  /\ \E r \in requests :
       LET resolved == ResolvedPath(r.id, r.importer) IN
       /\ ~FsFinds(r.id, r.importer)
       /\ requests' = requests \ {r}
       /\ inflight' = inflight \cup
            {[id |-> r.id, importer |-> r.importer, resolved |-> resolved]}
       /\ loaderCalls' = CountCall(loaderCalls, resolved)
  /\ UNCHANGED <<asideVars, inputVars, consoleVars, catalogVars, fanoutVars, extractVars, bundleVars, exitCode,
                 pc, virtualCache, rootIdx, resolutions, modules, firstLoad,
                 loadMisses, rewritten>>

\* Lines 421-425 with an empty text stored for a path the loader does not know.
LoaderReturnCachingMisses ==
  /\ pc = "rollup"
  /\ \E r \in inflight :
       /\ inflight' = inflight \ {r}
       /\ IF LoaderKnows(r.resolved)
            THEN /\ virtualCache' = CacheStore(virtualCache, r.resolved,
                                               LoaderBody(r.resolved))
                 /\ rewritten' = rewritten \cup ({r.resolved} \cap DOMAIN firstLoad)
                 /\ resolutions' = resolutions \cup
                      {[id |-> r.id, importer |-> r.importer,
                        resolved |-> r.resolved, via |-> "virtual"]}
                 /\ UNCHANGED <<pc, exitCode, logs>>
            ELSE IF StartsWith(r.id, <<".">>)
              THEN /\ pc' = "failed"
                   /\ exitCode' = 1
                   /\ logs' = Caught(logs)
                   /\ virtualCache' = CacheStore(virtualCache, r.resolved, <<>>)
                   /\ UNCHANGED <<resolutions, rewritten>>
              ELSE /\ resolutions' = resolutions \cup
                        {[id |-> r.id, importer |-> r.importer,
                          resolved |-> r.id, via |-> "external"]}
                   /\ virtualCache' = CacheStore(virtualCache, r.resolved, <<>>)
                   /\ UNCHANGED <<rewritten, pc, exitCode, logs>>
  /\ UNCHANGED <<asideVars, inputVars, summary, catalogVars, fanoutVars, extractVars, bundleVars,
                 rootIdx, requests, modules, loaderCalls, firstLoad, loadMisses>>

\* Lines 421-425: the loader has answered.  With no answer resolveId returns
\* nothing and no resolver is left: the bundler fails the build for a relative
\* id and leaves a bare name outside the graph, as an external module.
LoaderReturn ==
  /\ pc = "rollup"
  /\ \E r \in inflight :
       /\ inflight' = inflight \ {r}
       /\ IF LoaderKnows(r.resolved)
            THEN /\ virtualCache' = CacheStore(virtualCache, r.resolved,
                                               LoaderBody(r.resolved))
                 /\ rewritten' = rewritten \cup ({r.resolved} \cap DOMAIN firstLoad)
                 /\ resolutions' = resolutions \cup
                      {[id |-> r.id, importer |-> r.importer,
                        resolved |-> r.resolved, via |-> "virtual"]}
                 /\ UNCHANGED <<pc, exitCode, logs>>
            ELSE IF StartsWith(r.id, <<".">>)
              THEN /\ pc' = "failed"
                   /\ exitCode' = 1
                   /\ logs' = Caught(logs)
                   /\ UNCHANGED <<virtualCache, resolutions, rewritten>>
              ELSE /\ resolutions' = resolutions \cup
                        {[id |-> r.id, importer |-> r.importer,
                          resolved |-> r.id, via |-> "external"]}
                   /\ UNCHANGED <<virtualCache, rewritten, pc, exitCode, logs>>
  /\ UNCHANGED <<asideVars, inputVars, summary, catalogVars, fanoutVars, extractVars, bundleVars,
                 rootIdx, requests, modules, loaderCalls, firstLoad, loadMisses>>


(***************************************************************************)
(* The output of the bundler (lines 430-440).  An artifact is              *)
(* [fileName, isEntry, modules]: its code is the code of the modules it    *)
(* holds.                                                                  *)
(***************************************************************************)
\* The modules reachable from the modules of frontier over resolved imports.
RECURSIVE ReachFrom(_, _)
ReachFrom(frontier, seen) ==
  LET next == {r.resolved : r \in {x \in resolutions :
                                     x.importer \in frontier /\ x.via # "external"}} \ seen
  IN IF next = {} THEN seen ELSE ReachFrom(next, seen \cup next)

Reach(id) == ReachFrom({id}, {id})

\* The entries (positions of the input) that reach module m.
Colour(m) == {k \in DOMAIN entrypoints : m \in Reach(entrypoints[k].id)}

RECURSIVE SetToSeq(_)
SetToSeq(S) ==
  IF S = {} THEN <<>>
  ELSE LET x == CHOOSE y \in S : TRUE IN <<x>> \o SetToSeq(S \ {x})

\* chunkFileNames: 'c[hash].js' (line 438); the hash names the entries that share
\* the chunk.
RECURSIVE HashOf(_, _)
HashOf(colour, k) ==
  IF k > Len(entrypoints) THEN <<>>
  ELSE (IF k \in colour THEN <<ToString(k - 1)>> ELSE <<>>) \o HashOf(colour, k + 1)

ChunkFileName(colour) == <<"c">> \o HashOf(colour, 1) \o <<".", "js">>

\* Line 431.
experimentalCodeSplitting == TRUE

\* The artifacts of one graph over every entry of the input: one artifact per
\* entry, and with code splitting one chunk per set of two or more entries that
\* share modules.
EntryArtifacts ==
  [k \in DOMAIN entrypoints |->
     [fileName |-> entrypoints[k].id,
      isEntry |-> TRUE,
      modules |-> IF experimentalCodeSplitting
                    THEN {m \in DOMAIN modules : Colour(m) = {k}}
                    ELSE Reach(entrypoints[k].id)]]

SharedColours ==
  IF experimentalCodeSplitting
    THEN {Colour(m) : m \in DOMAIN modules} \ {{k} : k \in DOMAIN entrypoints}
    ELSE {}

ChunkArtifacts ==
  LET colours == SetToSeq(SharedColours) IN
  [n \in DOMAIN colours |->
     [fileName |-> ChunkFileName(colours[n]),
      isEntry |-> FALSE,
      modules |-> {m \in DOMAIN modules : Colour(m) = colours[n]}]]

GeneratedOutput == EntryArtifacts \o ChunkArtifacts

\* Lines 430-440: every request is finished and every module loaded; the graph is
\* bundled.
Generate ==
  /\ pc = "rollup"
  /\ rootIdx > Len(entrypoints)
  /\ requests = {}
  /\ inflight = {}
  /\ KnownIds \subseteq DOMAIN modules
  /\ generated' = GeneratedOutput
  /\ pc' = "modern"
  /\ i' = 1
  /\ UNCHANGED <<asideVars, inputVars, consoleVars, catalogVars, extractVars, resolverVars, reads, exitCode,
                 j, disk, writeLog, prodHtmlCount>>

(***************************************************************************)
(* The modern pass (lines 445-479) and the legacy pass (lines 481-507).    *)
(***************************************************************************)
DistStaticSrc == <<"dist", "/", "static", "/", "src">>

\* Line 452 with the path taken as it is.
ScriptSrcNotRelative(dir, filename) == <<"src", "/">> \o filename

\* Line 452: the src given to the script node of an entry.
ScriptSrc(dir, filename) == Relative(dir, <<"src", "/">> \o filename)

\* Line 476.
ModernTarget(filename) == Join2(DistStaticSrc, filename)

\* Lines 503 and 506.
LegacyInput(filename) == Join2(DistStaticSrc, filename)
\* Line 506 without the prefix.
LegacyTargetNoPrefix(filename) == Join2(DistStaticSrc, filename)

LegacyTarget(filename) == Join2(DistStaticSrc, <<"_">> \o filename)

\* Lines 446-462, one pass of the loop up to the await of babel.transformAsync:
\* the script node of an entry is given its src, the code of the artifact is
\* handed to the transform.
ModernStep ==
  /\ pc = "modern"
  /\ i <= Len(generated)
  /\ LET artifact == generated[i]
         filename == artifact.fileName
     IN /\ nodes' = IF artifact.isEntry
                      THEN [nodes EXCEPT ![EntryOf(filename).scriptNode].src =
                              ScriptSrc(EntryOf(filename).dir, filename)]
                      ELSE nodes
        /\ reads' = reads \cup
             {[pass |-> "modern", source |-> "generated",
               name |-> << <<"generated", ".", "output">>, filename >>]}
  /\ pc' = "transform"
  /\ UNCHANGED <<asideVars, inputVars, consoleVars, catalogVars, resolverVars, generated, exitCode,
                 i, j, disk, writeLog, prodHtmlCount, htmlDocuments, links, entrypoints,
                 requiredScriptSources>>

\* Lines 462-478: the transform has answered; its output is minified and
\* written, and the loop goes to the next artifact.
ModernWrite ==
  /\ pc = "transform"
  /\ LET artifact == generated[i]
         filename == artifact.fileName
         target == ModernTarget(filename)
     IN /\ disk' = WriteFile(disk, target,
                     [kind |-> "modern", item |-> filename,
                      modules |-> artifact.modules])
        /\ writeLog' = writeLog \cup
             {[kind |-> "modern", item |-> filename, lang |-> "", path |-> target]}
  /\ i' = i + 1
  /\ pc' = "modern"
  /\ UNCHANGED <<asideVars, inputVars, consoleVars, catalogVars, extractVars, resolverVars,
                 bundleVars, exitCode, j, prodHtmlCount>>

\* The loop of line 446 ends; lines 479-482.
ModernDone ==
  /\ pc = "modern"
  /\ i > Len(generated)
  /\ pc' = "legacy"
  /\ i' = 1
  /\ UNCHANGED <<asideVars, inputVars, consoleVars, catalogVars, extractVars, resolverVars, bundleVars,
                 exitCode, j, disk, writeLog, prodHtmlCount>>

\* The files the bundler reads when it bundles from the file of entry k: the file
\* itself and the files of the chunks it imports.
LegacyFiles(k) ==
  {LegacyInput(entrypoints[k].id)} \cup
  {ModernTarget(generated[n].fileName) :
     n \in {x \in DOMAIN generated :
              ~generated[x].isEntry /\ k \in Colour(CHOOSE m \in generated[x].modules : TRUE)}}

\* Lines 483-505, one pass of the loop up to the await of write(): the bundler
\* reads the file of the entry and the files it imports, and fails when a file
\* it is to read does not exist.
LegacyStep ==
  /\ pc = "legacy"
  /\ i <= Len(entrypoints)
  /\ LET files == LegacyFiles(i)
     IN /\ reads' = reads \cup
             {[pass |-> "legacy", source |-> "file", name |-> f] : f \in files}
        /\ IF files \subseteq DOMAIN disk
             THEN /\ pc' = "bundled"
                  /\ UNCHANGED <<exitCode, logs>>
             ELSE /\ pc' = "failed"
                  /\ exitCode' = 1
                  /\ logs' = Caught(logs)
  /\ UNCHANGED <<asideVars, inputVars, summary, catalogVars, extractVars, resolverVars, generated,
                 i, j, disk, writeLog, prodHtmlCount>>

\* Line 506: the code the bundler generated is written next to the modern
\* artifact, and the loop goes to the next entry.
LegacyWrite ==
  /\ pc = "bundled"
  /\ LET filename == entrypoints[i].id
         files == LegacyFiles(i)
         target == LegacyTarget(filename)
     IN /\ disk' = WriteFile(disk, target,
                     [kind |-> "legacy", item |-> <<"_">> \o filename,
                      modules |-> UNION {disk[f].modules : f \in files}])
        /\ writeLog' = writeLog \cup
             {[kind |-> "legacy", item |-> <<"_">> \o filename, lang |-> "",
               path |-> target]}
  /\ i' = i + 1
  /\ pc' = "legacy"
  /\ UNCHANGED <<asideVars, inputVars, consoleVars, catalogVars, extractVars, resolverVars,
                 bundleVars, exitCode, j, prodHtmlCount>>

\* Line 517: the languages of a message are shown when they are at most this many.
RestLimit == 10

\* Line 516 computes n / d * 100 in double arithmetic and rounds the double with
\* toFixed(): the nearest integer, the larger one for an exact half.  The double
\* differs from the quotient 100 n / d by less than any distance of a quotient
\* from a half, so the result is the nearest integer of the quotient unless the
\* quotient is an exact half and the double lies below it.

\* The largest e with 2^e <= x.
RECURSIVE Log2Floor(_)
Log2Floor(x) == IF x < 2 THEN 0 ELSE 1 + Log2Floor(x \div 2)

RECURSIVE Pow2(_)
Pow2(e) == IF e <= 0 THEN 1 ELSE 2 * Pow2(e - 1)

\* n / d as a / b * 2^e with 1 <= a / b < 2.
RECURSIVE Normalised(_, _, _)
Normalised(a, b, e) ==
  IF a < b THEN Normalised(2 * a, b, e - 1)
  ELSE IF a >= 2 * b THEN Normalised(a, 2 * b, e + 1)
  ELSE [a |-> a, b |-> b, e |-> e]

\* The long division of the fraction r / b over the given number of binary
\* digits: what is left, and the last digit.
RECURSIVE DivideBits(_, _, _, _)
DivideBits(r, b, digits, last) ==
  IF digits = 0 THEN [r |-> r, last |-> last]
  ELSE IF 2 * r >= b THEN DivideBits(2 * r - b, b, digits - 1, 1)
  ELSE DivideBits(2 * r, b, digits - 1, 0)

\* For 100 n / d = k + 1/2: the double n / d * 100 is below k + 1/2.  The
\* quotient n / d is rounded to 52 binary digits after the leading one, to the
\* nearest, an exact tie to the even digit; the product by 100 of a quotient
\* rounded down is rounded in turn, and stays below the half when it is nearer
\* to the double before the half than to the half.
DoubleBelowHalf(n, d, k) ==
  LET q == Normalised(n, d, 0)
      left == DivideBits(q.a - q.b, q.b, 52, 1)
      down == 2 * left.r < q.b \/ (2 * left.r = q.b /\ left.last = 0)
      shift == (Log2Floor(2 * k + 1) - 1) - q.e
  IN /\ down
     /\ (IF k = 0 THEN 400 ELSE 200) * left.r > q.b * Pow2(shift)

RatioPercent(n, d) ==
  IF (200 * n) % d = 0 /\ ((200 * n) \div d) % 2 = 1
    THEN LET k == ((200 * n) \div d - 1) \div 2
         IN IF DoubleBelowHalf(n, d, k) THEN k ELSE k + 1
    ELSE (2 * n * 100 + d) \div (2 * d)

\* Lines 510-519: one line for every key of the ledger.
MissingReport(mm, ls) ==
  [m \in DOMAIN mm |->
     [ratio |-> RatioPercent(Cardinality(mm[m]), Len(ls)),
      rest |-> IF Cardinality(mm[m]) <= RestLimit THEN mm[m] ELSE {}]]

\* The loop of line 483 ends; lines 509-522: the report is logged, release()
\* resolves and the process ends.
Report ==
  /\ pc = "legacy"
  /\ i > Len(entrypoints)
  /\ pc' = "done"
  /\ exitCode' = 0
  /\ summary' = MissingReport(missingMessages, langs)
  /\ logs' = logs \cup {"Done!"}
  /\ UNCHANGED <<asideVars, inputVars, catalogVars, fanoutVars, extractVars, resolverVars,
                 bundleVars>>

\* A raised error logged where it was raised, with release() going on.
RaiseSwallowed ==
  /\ pc \notin {"done", "failed"}
  /\ exitCode' = 1
  /\ logs' = Caught(logs)
  /\ UNCHANGED <<asideVars, inputVars, summary, catalogVars, fanoutVars, extractVars, resolverVars,
                 bundleVars, pc>>

\* Lines 524-527: a step of release() raises; the catch logs the error and ends
\* the process with code 1.
Raise ==
  /\ pc \notin {"done", "failed"}
  /\ pc' = "failed"
  /\ exitCode' = 1
  /\ logs' = Caught(logs)
  /\ UNCHANGED <<asideVars, inputVars, summary, catalogVars, fanoutVars, extractVars, resolverVars,
                 bundleVars>>


(***************************************************************************)
(* ElvesSystem (lines 11-75).                                              *)
(***************************************************************************)
MaxUpdates == 7

\* Lines 3-9.
ELVES_IMAGES ==
  <<"img/Elf1@2x.png", "img/Elf2@2x.png", "img/Elf3@2x.png", "img/Elf4@2x.png",
    "img/Elf5@2x.png">>

\* Line 18.
spawnPeriod == 5

\* Lines 45-55: one sprite for every image, in the order of the images.
generateElves == [k \in DOMAIN ELVES_IMAGES |-> ELVES_IMAGES[k]]

\* Lines 13-26: the fields after construction.  With readFromScene the sprites
\* are hung on the objects of the scene (lines 57-74) and this.elves is not set.
Constructed(fromScene) ==
  /\ readFromScene = fromScene
  /\ seconds = 0
  /\ lastSpawn = 0
  /\ nextElfIndex = 0
  /\ elves = IF fromScene THEN <<>> ELSE generateElves
  /\ added = <<>>
  /\ updates = 0

\* Line 30 with any progress of the clock taken for a period.
SpawnDueOnProgress(fromScene, now, last) ==
  ~fromScene /\ now - last > 0

\* Line 30: the condition of a spawn.
SpawnDue(fromScene, now, last) ==
  ~fromScene /\ now - last >= spawnPeriod

\* Line 42 without the wrap.
NextIndexUnwrapped(index, length) == index + 1

\* Line 42.
NextIndex(index, length) == (index + 1) % length

\* The seconds passed to update.
Deltas == {-1, 0, 1, 2, 5, 12}

\* Lines 28-43: update(deltaSeconds), with the spawnElf() it may call.  The
\* sprite at index i is elves[i + 1].
Update ==
  /\ updates < MaxUpdates
  /\ \E deltaSeconds \in Deltas :
       /\ seconds' = seconds + deltaSeconds
       /\ IF SpawnDue(readFromScene, seconds', lastSpawn)
            THEN /\ added' = Append(added, elves[nextElfIndex + 1])
                 /\ nextElfIndex' = NextIndex(nextElfIndex, Len(elves))
                 /\ lastSpawn' = seconds'
            ELSE UNCHANGED <<added, nextElfIndex, lastSpawn>>
  /\ updates' = updates + 1
  /\ UNCHANGED <<releaseVars, callVars, objectVars, readFromScene, elves>>

\* No ElvesSystem takes part in the run.
ElvesIdle == Constructed(TRUE)

(***************************************************************************)
(* virtualModuleContent (lines 210-235) and msgidForScene (lines 193-203)  *)
(* called on their own.  In an identifier of virtualModuleContent a        *)
(* character is its code: ':' is 58, '.' 46, '/' 47, '=' 61, and 0 is the  *)
(* character written \0.                                                   *)
(***************************************************************************)
MaxBodyLen == 2

\* Line 212: '::\0'.
Marker == <<58, 58, 0>>

\* The character of a base64 digit, and the digit of a character (-1 for a
\* character that is no digit; '-' and '_' are read as '+' and '/').
SextetChar(v) ==
  IF v < 26 THEN 65 + v
  ELSE IF v < 52 THEN 71 + v
  ELSE IF v < 62 THEN v - 4
  ELSE IF v = 62 THEN 43 ELSE 47

\* The digit a character stands for, -1 for none: the decoder of line 214
\* looks at the low byte of the code unit alone.
CharSextet(c) ==
  LET b == c % 256 IN
  IF b \in 65..90 THEN b - 65
  ELSE IF b \in 97..122 THEN b - 71
  ELSE IF b \in 48..57 THEN b + 4
  ELSE IF b \in {43, 45} THEN 62
  ELSE IF b \in {47, 95} THEN 63
  ELSE -1

\* The base64 text of a sequence of bytes, padded with '='.
RECURSIVE Base64Encode(_)
Base64Encode(bytes) ==
  IF Len(bytes) = 0 THEN <<>>
  ELSE IF Len(bytes) = 1 THEN
    <<SextetChar(bytes[1] \div 4), SextetChar((bytes[1] % 4) * 16), 61, 61>>
  ELSE IF Len(bytes) = 2 THEN
    <<SextetChar(bytes[1] \div 4),
      SextetChar((bytes[1] % 4) * 16 + bytes[2] \div 16),
      SextetChar((bytes[2] % 16) * 4), 61>>
  ELSE
    <<SextetChar(bytes[1] \div 4),
      SextetChar((bytes[1] % 4) * 16 + bytes[2] \div 16),
      SextetChar((bytes[2] % 16) * 4 + bytes[3] \div 64),
      SextetChar(bytes[3] % 64)>> \o Base64Encode(SubSeq(bytes, 4, Len(bytes)))

\* Buffer.from(text, 'base64') (line 214): the digits of the text up to the
\* first '=' (the first code unit of low byte 0x3D), a character that is no
\* digit being skipped, ...
RECURSIVE Sextets(_, _)
Sextets(text, k) ==
  IF k > Len(text) \/ text[k] % 256 = 61 THEN <<>>
  ELSE IF CharSextet(text[k]) < 0 THEN Sextets(text, k + 1)
  ELSE <<CharSextet(text[k])>> \o Sextets(text, k + 1)

\* ... and the bytes of these digits, four digits giving three bytes.
RECURSIVE BytesOf(_)
BytesOf(sx) ==
  IF Len(sx) < 2 THEN <<>>
  ELSE IF Len(sx) = 2 THEN <<sx[1] * 4 + sx[2] \div 16>>
  ELSE IF Len(sx) = 3 THEN
    <<sx[1] * 4 + sx[2] \div 16, (sx[2] % 16) * 16 + sx[3] \div 4>>
  ELSE
    <<sx[1] * 4 + sx[2] \div 16, (sx[2] % 16) * 16 + sx[3] \div 4,
      (sx[3] % 4) * 64 + sx[4]>> \o BytesOf(SubSeq(sx, 5, Len(sx)))

Base64Decode(text) == BytesOf(Sextets(text, 1))

\* buf.toString() (line 215) decodes UTF-8 into the code units of a string: a
\* byte below 128 is its character, a well-formed sequence of two to four bytes
\* is one character (two code units above U+FFFF), and every longest run of
\* bytes that begins a sequence and does not complete it is one U+FFFD, as is
\* every byte that begins none.
CodeUnits(cp) ==
  IF cp < 65536 THEN <<cp>>
  ELSE <<55296 + ((cp - 65536) \div 1024), 56320 + ((cp - 65536) % 1024)>>

RECURSIVE Utf8From(_, _, _, _, _, _)
Utf8From(bytes, k, needed, cp, lower, upper) ==
  IF k > Len(bytes) THEN (IF needed = 0 THEN <<>> ELSE <<65533>>)
  ELSE LET b == bytes[k] IN
    IF needed = 0 THEN
      IF b < 128 THEN <<b>> \o Utf8From(bytes, k + 1, 0, 0, 128, 191)
      ELSE IF b \in 194..223 THEN Utf8From(bytes, k + 1, 1, b % 32, 128, 191)
      ELSE IF b \in 224..239 THEN
        Utf8From(bytes, k + 1, 2, b % 16,
                 IF b = 224 THEN 160 ELSE 128, IF b = 237 THEN 159 ELSE 191)
      ELSE IF b \in 240..244 THEN
        Utf8From(bytes, k + 1, 3, b % 8,
                 IF b = 240 THEN 144 ELSE 128, IF b = 244 THEN 143 ELSE 191)
      ELSE <<65533>> \o Utf8From(bytes, k + 1, 0, 0, 128, 191)
    ELSE IF b \notin lower..upper
      THEN <<65533>> \o Utf8From(bytes, k, 0, 0, 128, 191)
    ELSE IF needed = 1
      THEN CodeUnits(cp * 64 + (b - 128)) \o Utf8From(bytes, k + 1, 0, 0, 128, 191)
    ELSE Utf8From(bytes, k + 1, needed - 1, cp * 64 + (b - 128), 128, 191)

Utf8ToString(bytes) == Utf8From(bytes, 1, 0, 0, 128, 191)

\* id.indexOf(pattern): the first position (from 0) where pattern is, or -1.
IndexOf(id, pattern) ==
  LET hits == {k \in 0..(Len(id) - Len(pattern)) :
                 SubSeq(id, k + 1, k + Len(pattern)) = pattern}
  IN IF hits = {} THEN -1 ELSE CHOOSE k \in hits : \A h \in hits : k <= h

\* A value returned by a call.
Returned(kind, value) == [kind |-> kind, value |-> value]
ReturnedUndefined == Returned("undefined", <<>>)

\* Lines 210-235.  importer is [defined, value].  For a relative identifier the
\* function goes on to path.dirname(importer), which throws a TypeError for
\* an undefined importer, and then to matchSceneMin at line 228, a name the
\* file defines nowhere: a ReferenceError.
virtualModuleContent(id, importer) ==
  LET virtualSplitIndex == IndexOf(id, Marker) IN
  IF ~importer.defined /\ virtualSplitIndex # -1
    THEN Returned("text",
           Utf8ToString(Base64Decode(SubSeq(id, virtualSplitIndex + 4, Len(id)))))
  ELSE IF ~StartsWith(id, <<46, 47>>) /\ ~StartsWith(id, <<46, 46, 47>>)
    THEN ReturnedUndefined
  ELSE IF ~importer.defined THEN Returned("throws", <<"TypeError">>)
  ELSE Returned("throws", <<"ReferenceError">>)

\* The call of the function named in args.
CallVirtualModuleContent ==
  /\ args.fn = "virtualModuleContent"
  /\ result.kind = "none"
  /\ result' = virtualModuleContent(args.id, args.importer)
  /\ UNCHANGED <<releaseVars, elvesVars, objectVars, args>>

CallMsgidForScene ==
  /\ args.fn = "msgidForScene"
  /\ result.kind = "none"
  /\ result' = Returned("text", msgidForScene(args.id, args.info))
  /\ UNCHANGED <<releaseVars, elvesVars, objectVars, args>>

\* No function is called on its own.
CallsIdle ==
  /\ args = [fn |-> "none"]
  /\ result = Returned("none", <<>>)

(***************************************************************************)
(* The snowbox Object (src/unnamed/part_001).  A mesh, a body or a ghost   *)
(* that is undefined is a record whose field defined is FALSE.  A position *)
(* is kept as fallen: whether its y is below CONFIG.Y_POS_LIMIT.  A method *)
(* that throws a TypeError leaves the assignments it has made and adds its *)
(* name to threw.                                                          *)
(***************************************************************************)
NoMesh == [defined |-> FALSE, visible |-> FALSE, material |-> "none", fallen |-> FALSE]
NoBody == [defined |-> FALSE, sleepState |-> 0, fallen |-> FALSE, inWorld |-> FALSE]
NoGhost == [defined |-> FALSE, fallen |-> FALSE]

Throw(o, method) == [o EXCEPT !.threw = @ \cup {method}]

\* Lines 11-30, and the constructor of the shape (Sphere/index.js line 15)
\* that sets selectable from its own configuration.
NewObject(selectable) ==
  [selectable |-> selectable, selected |-> FALSE, mesh |-> NoMesh, body |-> NoBody,
   ghost |-> NoGhost, ghostHelper |-> FALSE, sceneGhosts |-> 0, threw |-> {},
   deleted |-> FALSE]

\* Lines 38-88: a new body is awake in the world, a new mesh is in the scene
\* and not visible.  Nothing in the method, in init() or in load() keeps it
\* from running a second time.
setShape(o) ==
  [o EXCEPT !.body = [defined |-> TRUE, sleepState |-> 0, fallen |-> FALSE,
                      inWorld |-> TRUE],
            !.mesh = [defined |-> TRUE, visible |-> FALSE, material |-> "default",
                      fallen |-> FALSE]]

\* Lines 235-239.
highlight(o) ==
  IF o.mesh.defined THEN [o EXCEPT !.mesh.material = "highlight"] ELSE o

\* Lines 241-245.
unhighlight(o) ==
  IF o.mesh.defined THEN [o EXCEPT !.mesh.material = "default"] ELSE o

\* Lines 247-266.  Line 248 takes the fields of this.mesh, and throws when
\* there is no mesh.
createGhost(o) ==
  IF ~o.mesh.defined THEN Throw(o, "createGhost")
  ELSE [o EXCEPT !.ghost = [defined |-> TRUE, fallen |-> o.mesh.fallen],
                 !.sceneGhosts = @ + 1,
                 !.ghostHelper = IF CONFIG.DEBUG THEN TRUE ELSE @]

\* Lines 336-357.  No wireframe is ever set in this class.
deleteGhost(o) ==
  LET removed == IF o.ghost.defined
                   THEN [o EXCEPT !.ghost = NoGhost, !.sceneGhosts = @ - 1]
                   ELSE o
  IN IF CONFIG.DEBUG THEN [removed EXCEPT !.ghostHelper = TRUE] ELSE removed

\* Lines 102-115 without the test of this.selected.
selectAgain(o) ==
  IF o.selectable THEN
    LET marked == [o EXCEPT !.selected = TRUE] IN
    IF ~marked.body.defined THEN Throw(marked, "select")
    ELSE LET asleep == [marked EXCEPT !.body.sleepState = 2]
             hidden == IF asleep.mesh.defined
                         THEN [unhighlight(asleep) EXCEPT !.mesh.visible = FALSE]
                         ELSE asleep
         IN createGhost(hidden)
  ELSE o

\* Lines 102-115.  body.sleep() sets sleepState to 2 (sleeping); it throws
\* when there is no body yet.
select(o) ==
  IF o.selectable /\ ~o.selected THEN
    LET marked == [o EXCEPT !.selected = TRUE] IN
    IF ~marked.body.defined THEN Throw(marked, "select")
    ELSE LET asleep == [marked EXCEPT !.body.sleepState = 2]
             hidden == IF asleep.mesh.defined
                         THEN [unhighlight(asleep) EXCEPT !.mesh.visible = FALSE]
                         ELSE asleep
         IN createGhost(hidden)
  ELSE o

\* Lines 117-135.  Lines 124-128 change nothing; line 130 reads
\* this.mesh.visible and throws when there is no mesh.
unselect(o) ==
  IF o.selectable /\ o.selected THEN
    LET unmarked == [o EXCEPT !.selected = FALSE] IN
    IF ~unmarked.body.defined THEN Throw(unmarked, "unselect")
    ELSE LET awake == IF unmarked.body.sleepState > 0
                        THEN [unmarked EXCEPT !.body.sleepState = 0]
                        ELSE unmarked
         IN IF ~awake.mesh.defined THEN Throw(awake, "unselect")
            ELSE deleteGhost([awake EXCEPT !.mesh.visible = TRUE])
  ELSE o

\* Lines 323-334.  Line 325 reads this.mesh.geometry and throws when there is
\* no mesh.
delete(o) ==
  IF ~o.mesh.defined THEN Throw(o, "delete")
  ELSE [deleteGhost([o EXCEPT !.mesh = NoMesh, !.body.inWorld = FALSE])
          EXCEPT !.deleted = TRUE]

\* Lines 137-174.  With CONFIG.DEBUG line 167 calls this.ghostHelper.update()
\* and throws when no helper has been made.
update(o) ==
  IF o.mesh.defined THEN
    LET moved == [o EXCEPT !.mesh.fallen = o.body.fallen] IN
    IF moved.mesh.fallen THEN delete(moved)
    ELSE IF CONFIG.DEBUG /\ ~moved.ghostHelper THEN Throw(moved, "update")
    ELSE moved
  ELSE o

\* Lines 193-214: the ghost is put at a new place.
moveTo(o, fallen) ==
  IF ~o.ghost.defined THEN Throw(o, "moveTo")
  ELSE [o EXCEPT !.ghost.fallen = fallen]

\* Lines 365-376: the body is put where the ghost is.
moveToGhost(o) ==
  IF ~o.ghost.defined THEN Throw(o, "moveToGhost")
  ELSE [o EXCEPT !.body.fallen = o.ghost.fallen]

\* The calls of the scene on the Object.
SetShape ==
  /\ object' = setShape(object)
  /\ UNCHANGED <<releaseVars, elvesVars, callVars, CONFIG>>

Select ==
  /\ object' = select(object)
  /\ UNCHANGED <<releaseVars, elvesVars, callVars, CONFIG>>

Unselect ==
  /\ object' = unselect(object)
  /\ UNCHANGED <<releaseVars, elvesVars, callVars, CONFIG>>

Highlight ==
  /\ object' = highlight(object)
  /\ UNCHANGED <<releaseVars, elvesVars, callVars, CONFIG>>

Unhighlight ==
  /\ object' = unhighlight(object)
  /\ UNCHANGED <<releaseVars, elvesVars, callVars, CONFIG>>

MoveTo ==
  /\ \E fallen \in BOOLEAN : object' = moveTo(object, fallen)
  /\ UNCHANGED <<releaseVars, elvesVars, callVars, CONFIG>>

MoveToGhost ==
  /\ object' = moveToGhost(object)
  /\ UNCHANGED <<releaseVars, elvesVars, callVars, CONFIG>>

UpdateObject ==
  /\ object' = update(object)
  /\ UNCHANGED <<releaseVars, elvesVars, callVars, CONFIG>>

Delete ==
  /\ object' = delete(object)
  /\ UNCHANGED <<releaseVars, elvesVars, callVars, CONFIG>>

\* No Object takes part in the run.
ObjectIdle ==
  /\ object = NewObject(FALSE)
  /\ CONFIG = [DEBUG |-> FALSE]

\* The programs other than release() take no part in the run.
OtherProgramsIdle == ElvesIdle /\ CallsIdle /\ ObjectIdle

(***************************************************************************)
(* Initial states and specifications.                                      *)
(***************************************************************************)
EmptyMap == [x \in {} |-> {}]

\* The state of release() when it is called.
InitState ==
  /\ pc = "start"
  /\ exitCode = -1
  /\ missingMessages = EmptyMap
  /\ reported = {}
  /\ nReports = 0
  /\ langs = <<>>
  /\ i = 1
  /\ j = 1
  /\ disk = EmptyMap
  /\ writeLog = {}
  /\ prodHtmlCount = 0
  /\ logs = {}
  /\ summary = EmptyMap

InitBuildState ==
  /\ htmlDocuments = {}
  /\ links = EmptyMap
  /\ nodes = EmptyMap
  /\ entrypoints = <<>>
  /\ requiredScriptSources = {}
  /\ virtualCache = EmptyMap
  /\ rootIdx = 1
  /\ requests = {}
  /\ inflight = {}
  /\ resolutions = {}
  /\ modules = EmptyMap
  /\ loaderCalls = EmptyMap
  /\ firstLoad = EmptyMap
  /\ loadMisses = {}
  /\ rewritten = {}
  /\ generated = <<>>
  /\ reads = {}

\* All sequences over S of length at most n.
SeqsUpTo(S, n) == UNION {[1..m -> S] : m \in 0..n}

IndexHtml == <<"index", ".", "html">>
SceneAHtml == <<"scenes", "/", "a", "/", "index", ".", "html">>

USrc == <<".", "/", "u", ".", "js">>
VSrc == <<"v", ".", "js">>
UpUSrc == <<".", ".", "/", ".", ".", "/", "u", ".", "js">>
LitSrc == <<"lit">>

\* Script nodes of the documents of the build.
ModuleSrcScript == [type |-> <<"module">>, src |-> USrc, text |-> <<>>]
ModuleBareSrcScript == [type |-> <<"module">>, src |-> VSrc, text |-> <<>>]
ModuleInlineScript ==
  [type |-> <<"module">>, src |-> <<>>,
   text |-> ImportStatement(UpUSrc) \o ImportStatement(LitSrc) \o <<"run();">>]
ClassicScript ==
  [type |-> <<>>, src |-> <<"third_party", "/", "x", ".", "js">>, text |-> <<>>]

ScriptSamples ==
  {ModuleSrcScript, ModuleBareSrcScript, ModuleInlineScript, ClassicScript}

\* index.html alone, or index.html and the page of scene a, with at most
\* MaxScripts script nodes in all.
HtmlInputs ==
  {<<[file |-> IndexHtml, styles |-> <<>>, scripts |-> a]>> : a \in SeqsUpTo(ScriptSamples, MaxScripts)}
  \cup
  {<<[file |-> IndexHtml, styles |-> <<>>, scripts |-> p[1]], [file |-> SceneAHtml, styles |-> <<>>, scripts |-> p[2]]>> :
     p \in {q \in SeqsUpTo(ScriptSamples, MaxScripts) \X SeqsUpTo(ScriptSamples, MaxScripts) :
               Len(q[1]) + Len(q[2]) <= MaxScripts}}

\* Stylesheet links: two that name styles/x.css, from the root and from the
\* page of scene a, one the loader has no answer for, and a remote one.
LocalStyle == <<"styles", "/", "x", ".", "css">>
UpStyle == <<".", ".", "/", ".", ".", "/", "styles", "/", "x", ".", "css">>
NoneStyle == <<"styles", "/", "none", ".", "css">>
RemoteStyle == <<"https:", "/", "/", "fonts", "/", "f", ".", "css">>

\* Documents with stylesheet links.
StyledInputs ==
  {<<[file |-> IndexHtml, styles |-> st, scripts |-> sc]>> :
     st \in {<<LocalStyle>>, <<RemoteStyle, LocalStyle>>, <<LocalStyle, NoneStyle>>,
             <<NoneStyle>>, <<RemoteStyle>>},
     sc \in {<<>>, <<ModuleSrcScript>>}}
  \cup
  {<<[file |-> IndexHtml, styles |-> <<LocalStyle>>, scripts |-> <<>>],
     [file |-> SceneAHtml, styles |-> <<UpStyle>>, scripts |-> <<ModuleSrcScript>>]>>}

RepoU == <<"/", "repo", "/", "u", ".", "js">>
RepoV == <<"/", "repo", "/", "v", ".", "js">>
RepoSceneV == <<"/", "repo", "/", "scenes", "/", "a", "/", "v", ".", "js">>
RepoSceneU == <<"/", "repo", "/", "scenes", "/", "a", "/", "u", ".", "js">>

\* What the compiling loader knows: every source, with u.js importing v.js; or
\* the sources of the root alone, none importing another.
SourceWorlds ==
  {(RepoU :> (ImportStatement(<<".", "/", "v", ".", "js">>) \o <<"export u;">>))
     @@ (RepoV :> <<"export v;">>)
     @@ (RepoSceneU :> <<"export su;">>)
     @@ (RepoSceneV :> <<"export sv;">>)
     @@ (LocalStyle :> <<"body{}">>),
   (RepoU :> <<"export u;">>) @@ (RepoV :> <<"export v;">>)
     @@ (LocalStyle :> <<"body{}">>)}

\* What filesystem lookup finds: nothing; the package lit; or the package and
\* the file u.js of the root as it is on disk, importing nothing.
LitPackage == <<"/", "repo", "/", "node_modules", "/", "lit">>
FsWorlds ==
  {EmptyMap,
   (LitPackage :> <<"export {};">>),
   (LitPackage :> <<"export {};">>) @@ (RepoU :> <<"export raw;">>)}

\* The inputs of a run with one language and a bare prod tree.
PlainCatalogInputs ==
  /\ yargs = [defaultLang |-> "en", defaultOnly |-> FALSE]
  /\ catalog = <<"en">>
  /\ scenes = <<>>
  /\ prodOtherHtml = <<>>
  /\ ogImages = {}

PlainBuildInputs ==
  /\ htmlInput = <<[file |-> IndexHtml, styles |-> <<>>, scripts |-> <<>>]>>
  /\ sources = EmptyMap
  /\ fsFiles = EmptyMap

\* The state of release() at line 333 of a run with PlainCatalogInputs.
AtExtract ==
  /\ pc = "extract"
  /\ exitCode = -1
  /\ missingMessages = EmptyMap
  /\ reported = {}
  /\ nReports = 0
  /\ langs = <<"en">>
  /\ i = 1
  /\ j = 1
  /\ disk = WriteFile(EmptyMap, ManifestTarget("en"),
              [kind |-> "manifest", item |-> <<"manifest", ".", "json">>,
               lang |-> "en"])
  /\ writeLog = {[kind |-> "manifest", item |-> <<"manifest", ".", "json">>,
                  lang |-> "en", path |-> ManifestTarget("en")]}
  /\ prodHtmlCount = 0
  /\ logs = {}
  /\ summary = EmptyMap

NextCatalog == Mkdirs \/ ReportMissing \/ CatalogLoaded

NextFanout ==
  \/ ReleaseProdAssets
  \/ CopyAsset
  \/ AssetsReleased
  \/ WritePage
  \/ PagesDone
  \/ WriteScene
  \/ ScenesDone
  \/ WriteManifest
  \/ ManifestDone

NextBuild ==
  \/ ExtractDocument
  \/ InlineStyle
  \/ StartRollup
  \/ ResolveRoot
  \/ Load
  \/ FsResolve
  \/ LoaderCall
  \/ LoaderReturn
  \/ Generate
  \/ ModernStep
  \/ ModernWrite
  \/ ModernDone
  \/ LegacyStep
  \/ LegacyWrite
  \/ Report

vars == <<releaseVars, asideVars>>

\* Catalog loading and document fanout, over every catalog, option, scene
\* registry and set of prod pages of the model.
InitFanout ==
  /\ yargs \in [defaultLang : {"en", "fr"}, defaultOnly : BOOLEAN]
  /\ catalog \in SubSeqsOf(LangOrder)
  /\ scenes \in SubSeqsOf(SceneOrder)
  /\ prodOtherHtml \in SubSeqsOf(PageOrder)
  /\ ogImages \in SUBSET {<<"cast">>, <<"icehockey">>}
  /\ PlainBuildInputs
  /\ InitState
  /\ InitBuildState
  /\ OtherProgramsIdle

SpecFanout == InitFanout /\ [][NextCatalog \/ NextFanout \/ Raise]_vars

\* The static build from line 333 on, over the documents and sources of the model.
InitBuild ==
  /\ PlainCatalogInputs
  /\ htmlInput \in HtmlInputs \cup StyledInputs
  /\ sources \in SourceWorlds
  /\ fsFiles \in FsWorlds
  /\ AtExtract
  /\ InitBuildState
  /\ OtherProgramsIdle

SpecBuild == InitBuild /\ [][NextBuild \/ Raise]_vars

\* Entry extraction over a document with one script node of any type, with any
\* src of at most MaxSrcLen atoms, local or remote, and with or without text.
SrcTexts ==
  SeqsUpTo({".", "/", "f"}, MaxSrcLen)
    \cup {<<"https:", "/", "/", "cdn", "/", "f">>}

ScriptNodes ==
  [type : {<<>>, <<"text/javascript">>, <<"module">>, <<"application/json">>},
   src : SrcTexts,
   text : {<<>>, <<"run();">>}]

\* The classic script of index.html as the page of scene a names it, and a
\* classic script served from elsewhere.
ClassicUpScript ==
  [type |-> <<"text/javascript">>,
   src |-> <<".", ".", "/", ".", ".", "/", "third_party", "/", "x", ".", "js">>,
   text |-> <<>>]
RemoteClassicScript ==
  [type |-> <<>>, src |-> <<"https:", "/", "/", "cdn", "/", "x", ".", "js">>, text |-> <<>>]

\* index.html with its classic script, and the page of scene a with one script.
TwoDocumentInputs ==
  {<<[file |-> IndexHtml, styles |-> <<>>, scripts |-> <<ClassicScript>>],
     [file |-> SceneAHtml, styles |-> <<>>, scripts |-> <<n>>]>> :
     n \in {ClassicScript, ClassicUpScript, RemoteClassicScript, ModuleSrcScript}}

InitExtract ==
  /\ PlainCatalogInputs
  /\ htmlInput \in {<<[file |-> f, styles |-> <<>>, scripts |-> <<n>>]>> :
                       f \in {IndexHtml, SceneAHtml}, n \in ScriptNodes}
                    \cup TwoDocumentInputs \cup StyledInputs
  /\ sources \in {EmptyMap, (LocalStyle :> <<"body{}">>)}
  /\ fsFiles = EmptyMap
  /\ AtExtract
  /\ InitBuildState
  /\ OtherProgramsIdle

SpecExtract == InitExtract /\ [][ExtractDocument \/ InlineStyle \/ StartRollup]_vars

\* A whole run of release().
Init ==
  /\ yargs \in [defaultLang : {"en"}, defaultOnly : BOOLEAN]
  /\ catalog \in {<<"en">>, <<"en", "fr">>, <<"fr">>}
  /\ scenes \in {<<>>, << <<"icehockey">> >>}
  /\ prodOtherHtml \in {<<>>, <<PageOrder[1]>>}
  /\ ogImages \in SUBSET {<<"icehockey">>}
  /\ htmlInput \in
       {<<[file |-> IndexHtml, styles |-> <<LocalStyle>>,
           scripts |-> <<ModuleSrcScript, ClassicScript>>],
          [file |-> SceneAHtml, styles |-> <<>>, scripts |-> <<n>>]>> :
          n \in {ModuleInlineScript, ModuleBareSrcScript}}
  /\ sources \in SourceWorlds
  /\ fsFiles \in {EmptyMap, (LitPackage :> <<"export {};">>)}
  /\ InitState
  /\ InitBuildState
  /\ OtherProgramsIdle

Next == NextCatalog \/ NextFanout \/ NextBuild \/ Raise

Spec == Init /\ [][Next]_vars

\* release() takes no part in the run.
ReleaseIdle ==
  /\ PlainCatalogInputs
  /\ PlainBuildInputs
  /\ InitState
  /\ InitBuildState

\* An ElvesSystem of either kind, and any sequence of at most MaxUpdates updates.
InitElves ==
  /\ ReleaseIdle
  /\ CallsIdle
  /\ ObjectIdle
  /\ \E fromScene \in BOOLEAN : Constructed(fromScene)

SpecElves == InitElves /\ [][Update]_vars

\* The characters of a source body: 'a', ':', '?' and \0.
BodyChars == {97, 58, 63, 0}

\* The prefixes of an identifier: none, 'a', './', and four that hold the
\* marker, '::\0', 'x::\0b' and 'x::\0' with the character U+0141 or U+013D
\* after it.
Prefixes ==
  {<<>>, <<97>>, <<46, 47>>, <<58, 58, 0>>, <<120, 58, 58, 0, 98>>,
   <<120, 58, 58, 0, 321>>, <<120, 58, 58, 0, 317>>}

\* Identifiers without the marker: 'lit', '', '.x', './u' and '../u'.
PlainIds == {<<108, 105, 116>>, <<>>, <<46, 120>>, <<46, 47, 117>>, <<46, 46, 47, 117>>}

Importers == {[defined |-> FALSE, value |-> <<>>], [defined |-> TRUE, value |-> <<101, 48>>]}

VirtualCalls ==
  {[fn |-> "virtualModuleContent", embedded |-> TRUE, prefix |-> p, body |-> b,
    id |-> p \o Marker \o Base64Encode(b), importer |-> m] :
     p \in Prefixes, b \in SeqsUpTo(BodyChars, MaxBodyLen), m \in Importers}
  \cup
  {[fn |-> "virtualModuleContent", embedded |-> FALSE, prefix |-> <<>>, body |-> <<>>,
    id |-> x, importer |-> m] : x \in PlainIds, m \in Importers}

\* The descriptors of scenes.json5, and no descriptor (present is FALSE).
SceneInfos ==
  [present : BOOLEAN, video : BOOLEAN, hasMsgid : BOOLEAN,
   msgid : {<<>>, <<"custom">>}]

MsgidCalls ==
  {[fn |-> "msgidForScene", id |-> x, info |-> y] :
     x \in {<<>>, <<"cast">>, <<"icehockey">>}, y \in SceneInfos}

\* One call of virtualModuleContent or of msgidForScene, over the arguments of
\* the model.
InitCalls ==
  /\ ReleaseIdle
  /\ ElvesIdle
  /\ ObjectIdle
  /\ args \in VirtualCalls \cup MsgidCalls
  /\ result = Returned("none", <<>>)

SpecCalls == InitCalls /\ [][CallVirtualModuleContent \/ CallMsgidForScene]_vars

\* A new Object of a shape, selectable or not, under either configuration.
InitObject ==
  /\ ReleaseIdle
  /\ ElvesIdle
  /\ CallsIdle
  /\ \E selectable \in BOOLEAN : object = NewObject(selectable)
  /\ CONFIG \in [DEBUG : BOOLEAN]

NextObject ==
  \/ SetShape
  \/ Select
  \/ Unselect
  \/ Highlight
  \/ Unhighlight
  \/ MoveTo
  \/ MoveToGhost
  \/ UpdateObject
  \/ Delete

SpecObject == InitObject /\ [][NextObject]_vars


(***************************************************************************)
(* Properties of catalog loading and document fanout (SpecFanout).         *)
(***************************************************************************)
\* The writes of prod documents: pages, scene pages and manifests.
DocumentWrites == {w \in writeLog : w.kind \in {"page", "scene", "manifest"}}

C2_LedgerHoldsEveryReport ==
  \A r \in reported :
    /\ r[2] \in DOMAIN missingMessages
    /\ r[1] \in missingMessages[r[2]]


\* The path claimed for the document of scene sceneName in language lang.
ClaimedScenePath(sceneName, lang) ==
  << <<"dist">>, <<"prod">> >>
    \o (IF lang = yargs.defaultLang THEN <<>> ELSE << <<"intl">>, <<lang, "_ALL">> >>)
    \o << IF sceneName = <<>> THEN <<"index", ".", "html">>
          ELSE sceneName \o <<".", "html">> >>

\* C8: the document of scene S in language L is written at dist/prod/<root>/<name>,
\* with <root> the site root for the default language and intl/<L>_ALL for any
\* other, and <name> index.html for the scene with the empty id and <S>.html
\* otherwise.
C8_SceneDocumentPath ==
  \A w \in writeLog :
    w.kind = "scene" =>
      /\ w.path = ClaimedScenePath(w.item, w.lang)
      /\ w.path \in DOMAIN disk

\* C8, witness: with default language en and a second language fr, scene
\* icehockey was written at icehockey.html and at intl/fr_ALL/icehockey.html, and
\* the scene with the empty id at index.html.
C8_Witness ==
  /\ yargs.defaultLang = "en"
  /\ [kind |-> "scene", item |-> <<"icehockey">>, lang |-> "en",
      path |-> << <<"dist">>, <<"prod">>, <<"icehockey", ".", "html">> >>] \in writeLog
  /\ [kind |-> "scene", item |-> <<"icehockey">>, lang |-> "fr",
      path |-> << <<"dist">>, <<"prod">>, <<"intl">>, <<"fr", "_ALL">>,
                  <<"icehockey", ".", "html">> >>] \in writeLog
  /\ [kind |-> "scene", item |-> <<>>, lang |-> "en",
      path |-> << <<"dist">>, <<"prod">>, <<"index", ".", "html">> >>] \in writeLog

\* The writes of the fanout of pages and scenes.
FanoutWrites == {w \in writeLog : w.kind \in {"page", "scene"}}

\* C9: once the fanout of pages and scenes is over, no two different
\* (page-or-scene, language) pairs were written to the same path, and the
\* number of distinct documents equals (pages + scenes) times languages.
C9_OneDocumentPerPair ==
  pc \in {"manifest", "extract"} =>
    /\ \A w1, w2 \in FanoutWrites : w1.path = w2.path => w1 = w2
    /\ Cardinality({w.path : w \in FanoutWrites})
         = (Len(prodOtherHtml) + Len(scenes)) * Len(langs)


(***************************************************************************)
(* Properties of the static build (SpecBuild, SpecExtract).                *)
(***************************************************************************)
\* C3: within one run the compiling loader is invoked at most once for a
\* resolved module identifier (a path that gets a cache entry), however many
\* resolution requests lead to it, one after another or in flight together.
C3_CompileOncePerIdentifier ==
  \A p \in DOMAIN loaderCalls : p \in DOMAIN virtualCache => loaderCalls[p] <= 1

\* C4: once load(id) has answered from the cache, every later load(id) answers
\* the same text, whatever resolution requests were handled in between.
C4_LoadIsStable ==
  \A id \in DOMAIN firstLoad :
    /\ id \in DOMAIN virtualCache
    /\ LoadResult(id) = firstLoad[id]

\* C4, witness: the cache entry of a module was assigned again, by a second
\* resolution request, after the module had been loaded.
C4_Witness ==
  \E id \in rewritten : id \in DOMAIN firstLoad /\ loaderCalls[id] >= 2

\* C6: after a successful build the script node of every registered entry has a
\* src which, resolved from the directory of its document, is src/<entry id>,
\* the path of the modern artifact written for the entry.
C6_ScriptNodePointsAtBundle ==
  pc = "done" =>
    \A k \in DOMAIN entrypoints :
      LET e == entrypoints[k]
          src == nodes[e.scriptNode].src
      IN /\ src # <<>>
         /\ Normalize(Split(e.dir) \o Split(src), FALSE) = << <<"src">>, e.id >>
         /\ << <<"dist">>, <<"static">>, <<"src">>, e.id >> \in DOMAIN disk
         /\ disk[<< <<"dist">>, <<"static">>, <<"src">>, e.id >>].kind = "modern"

\* C6, witness: a build with an entry in the document of a scene and one in
\* index.html is done.
C6_Witness ==
  /\ pc = "done"
  /\ \E k1, k2 \in DOMAIN entrypoints :
       /\ entrypoints[k1].dir = <<".">>
       /\ entrypoints[k2].dir = <<"scenes", "/", "a">>

\* The text is a relative specifier: '.', '..', or a text that begins with './'
\* or '../'.
IsRelativeSpecifier(s) ==
  \/ s = <<".">>
  \/ s = <<".", ".">>
  \/ StartsWith(s, <<".", "/">>)
  \/ StartsWith(s, <<".", ".", "/">>)

\* C7: the source text of the entry point of a module script with a src is the
\* single statement import '<s>'; with <s> the src when the src is relative and
\* './' followed by the src otherwise; without a src it is the inline text.
C7_EntryPointSource ==
  \A k \in DOMAIN entrypoints :
    LET e == entrypoints[k]
        scriptNode == htmlInput[e.scriptNode[1]].scripts[e.scriptNode[2]]
    IN e.code =
         IF scriptNode.src # <<>>
           THEN <<"import '">>
                  \o (IF IsRelativeSpecifier(scriptNode.src) THEN scriptNode.src
                      ELSE <<".", "/">> \o scriptNode.src)
                  \o <<"';">>
           ELSE scriptNode.text

\* C10: the legacy pass reads nothing the modern pass writes, and the two passes
\* write different paths, so that the order of the passes cannot matter.
C10_PassesAreIndependent ==
  /\ \A r \in reads :
       r.pass = "legacy" =>
         \A w \in writeLog : w.kind = "modern" => w.path # r.name
  /\ \A w1, w2 \in writeLog :
       (w1.kind = "modern" /\ w2.kind = "legacy") => w1.path # w2.path


(***************************************************************************)
(* Properties of the two passes and of the order of the stages.            *)
(***************************************************************************)
\* The path dist/static/src/<name>, split at its separators.
StaticSrcPath(name) == << <<"dist">>, <<"static">>, <<"src">>, name >>

\* The file at a path is the artifact of the given pass and name.
HoldsArtifact(target, kind, item) ==
  /\ target \in DOMAIN disk
  /\ disk[target].kind = kind
  /\ disk[target].item = item

\* C11: after a successful build every artifact of the bundler, entry or shared
\* chunk, has its modern artifact at dist/static/src/<filename>; every registered
\* entry point has its legacy artifact at dist/static/src/_<entry id>; a shared
\* chunk has no legacy-prefixed artifact.
C11_ModernAndLegacyArtifacts ==
  pc = "done" =>
    /\ \A n \in DOMAIN generated :
         HoldsArtifact(StaticSrcPath(generated[n].fileName), "modern",
                       generated[n].fileName)
    /\ \A k \in DOMAIN entrypoints :
         HoldsArtifact(StaticSrcPath(<<"_">> \o entrypoints[k].id), "legacy",
                       <<"_">> \o entrypoints[k].id)
    /\ \A n \in DOMAIN generated :
         ~generated[n].isEntry =>
           StaticSrcPath(<<"_">> \o generated[n].fileName) \notin DOMAIN disk

\* A build has ended well with two entry points and a chunk they share.
C11_Witness ==
  /\ pc = "done"
  /\ Len(entrypoints) = 2
  /\ \E n \in DOMAIN generated : ~generated[n].isEntry
  /\ \A k \in DOMAIN entrypoints :
       StaticSrcPath(<<"_">> \o entrypoints[k].id) \in DOMAIN disk

\* The module scripts of the documents of the build that are not remote.
LocalModuleScripts ==
  UNION {{<<d, k>> : k \in {n \in DOMAIN htmlInput[d].scripts :
                              /\ htmlInput[d].scripts[n].type = <<"module">>
                              /\ ~(/\ htmlInput[d].scripts[n].src # <<>>
                                   /\ htmlInput[d].scripts[n].src[1] \in {"http:", "https:"})}} :
           d \in DOMAIN htmlInput}

\* A step of the resolver or of the bundler: resolveId, load, the filesystem
\* lookup, the return of the loader behind resolveId, the generation of the
\* bundle.  The loader calls of the extraction (line 365) inline style sheets
\* and are no step of the resolver: they change the call counts alone.
BundlerStep ==
  \/ <<virtualCache, rootIdx, requests, inflight, resolutions, modules,
        firstLoad, loadMisses, rewritten>>' #
     <<virtualCache, rootIdx, requests, inflight, resolutions, modules,
       firstLoad, loadMisses, rewritten>>
  \/ generated' # generated

\* C12: no document of the fanout is written before catalog loading and the
\* default-language check are over, and nothing is reported missing after a
\* document was written; no step of the resolver or the bundler is taken before
\* every HTML document was scanned, and from the start of bundling on the entry
\* registry holds every module script of the documents and does not change.
C12_StagesInOrder ==
  /\ [][DocumentWrites' # DocumentWrites =>
          /\ pc \notin {"start", "catalog"}
          /\ yargs.defaultLang \in Range(catalog)]_vars
  /\ [][nReports' # nReports => DocumentWrites = {}]_vars
  /\ [][BundlerStep =>
          /\ htmlDocuments = DOMAIN htmlInput
          /\ entrypoints' = entrypoints]_vars
  /\ [](pc \in {"rollup", "modern", "transform", "legacy", "bundled", "done"} =>
          {e.scriptNode : e \in Range(entrypoints)} = LocalModuleScripts)
  /\ [][(pc \in {"rollup", "modern", "transform", "legacy", "bundled"}) =>
          entrypoints' = entrypoints]_vars

\* The bundler has resolved an entry of a build of two documents, after a fanout
\* that wrote documents and a catalog load that reported a missing message.
C12_Witness ==
  /\ pc = "rollup"
  /\ DOMAIN virtualCache # {}
  /\ Len(htmlInput) = 2
  /\ DocumentWrites # {}
  /\ reported # {}


(***************************************************************************)
(* Properties of the ledger, of failures and of the default-only option.   *)
(***************************************************************************)
\* The path dist/prod/<root of lang>/<name>, split at its separators.
ProdPath(lang, name) ==
  << <<"dist">>, <<"prod">> >>
    \o (IF lang = yargs.defaultLang THEN <<>> ELSE << <<"intl">>, <<lang, "_ALL">> >>)
    \o <<name>>

\* The languages of the output, by the options and the catalog alone.
ExpectedLangs == IF yargs.defaultOnly THEN {yargs.defaultLang} ELSE Range(catalog)

\* The files a build writes, by its inputs and the output of the bundler alone:
\* nothing here mentions the ledger.
ExpectedOutputFiles ==
  {ProdPath(l, Split(prodOtherHtml[k])[2]) : l \in ExpectedLangs, k \in DOMAIN prodOtherHtml}
  \cup {ProdPath(l, IF scenes[k] = <<>> THEN <<"index", ".", "html">>
                                         ELSE scenes[k] \o <<".", "html">>) :
          l \in ExpectedLangs, k \in DOMAIN scenes}
  \cup {ProdPath(l, <<"manifest", ".", "json">>) : l \in ExpectedLangs}
  \cup {<< <<"dist">>, <<"prod">>, <<"images">>, <<"og">>, s \o <<".", "png">> >> :
          s \in ogImages}
  \cup {StaticSrcPath(generated[n].fileName) : n \in DOMAIN generated}
  \cup {StaticSrcPath(<<"_">> \o entrypoints[k].id) : k \in DOMAIN entrypoints}

\* C13: the ledger never influences the result of the build.  Two runs that
\* differ only in one report of a missing pair are, but for the ledger, in the
\* same state after it: the step that makes a report changes nothing of the run
\* but the ledger (and so the two runs write the same files and end with the
\* same exit status); at every moment the files written are among the files
\* fixed by the inputs other than the reports, and a build that ends has written
\* exactly these and exits with status 0, whatever was reported missing; the
\* ledger is read by the report at the end of a successful build and nowhere
\* else.
C13_LedgerNeverInfluencesResult ==
  /\ [][(missingMessages' # missingMessages \/ reported' # reported
            \/ nReports' # nReports) =>
          UNCHANGED <<asideVars, inputVars, fanoutVars, extractVars, resolverVars, bundleVars,
                      consoleVars, langs, pc, exitCode>>]_vars
  /\ [](DOMAIN disk \subseteq ExpectedOutputFiles)
  /\ [](pc = "done" => (exitCode = 0 /\ DOMAIN disk = ExpectedOutputFiles))
  /\ [][summary' # summary => (pc = "legacy" /\ pc' = "done")]_vars


\* The driver has caught a raised failure.
Failed == "console.warn(err)" \in logs

\* C14: once a stage has raised, the error was logged by the catch of the driver
\* and the process has ended with exit code 1: no step of any stage follows, the
\* failing stage included, 'Done!' is never logged and no report is made; and
\* the process exits with a non-zero code in no other way.
C14_RaisedFailureEndsTheRun ==
  /\ [](Failed => /\ pc = "failed"
                  /\ exitCode = 1
                  /\ "Done!" \notin logs
                  /\ summary = EmptyMap)
  /\ [][~Failed]_vars
  /\ []((exitCode = 1 \/ pc = "failed") => Failed)

\* A stage has raised in the middle of the pipeline: documents were written and
\* entry points registered, and the run has ended there.
C14_Witness ==
  /\ Failed
  /\ exitCode = 1
  /\ DocumentWrites # {}
  /\ entrypoints # <<>>
  /\ generated = <<>>

\* C15: with the default-only option set, every prod page, scene page and
\* manifest written is the one of the default language, at the site root; once the
\* fanout is over each page, scene and manifest has its default-language file;
\* and the ledger holds every pair reported missing, the pairs of the languages
\* deleted from the output set included.
C15_DefaultOnlyKeepsLedger ==
  yargs.defaultOnly =>
    /\ \A w \in DocumentWrites :
         /\ w.lang = yargs.defaultLang
         /\ Len(w.path) = 3
         /\ w.path[1] = <<"dist">> /\ w.path[2] = <<"prod">>
    /\ pc = "extract" =>
         /\ \A p \in DOMAIN disk :
              disk[p].kind \in {"page", "scene", "manifest"} => Len(p) = 3
         /\ << <<"dist">>, <<"prod">>, <<"manifest", ".", "json">> >> \in DOMAIN disk
         /\ \A k \in DOMAIN scenes :
              \E w \in DocumentWrites : w.kind = "scene" /\ w.item = scenes[k]
         /\ \A k \in DOMAIN prodOtherHtml :
              \E w \in DocumentWrites : w.kind = "page" /\ w.item = Basename(prodOtherHtml[k])
    /\ pc \notin {"start", "catalog"} =>
         \A l \in Range(catalog), m \in Msgids :
           <<l, m>> \in reported => (m \in DOMAIN missingMessages /\ l \in missingMessages[m])



(***************************************************************************)
(* Properties of the classic scripts and of the documents of the build.    *)
(***************************************************************************)
\* The script nodes of the documents as they were read: <<document, position>>.
ScriptPositions ==
  UNION {{<<d, k>> : k \in DOMAIN htmlInput[d].scripts} : d \in DOMAIN htmlInput}

ScriptAt(n) == htmlInput[n[1]].scripts[n[2]]

\* A classic script with a src that is not remote.
ClassicLocalWithSrc(n) ==
  /\ ScriptAt(n).src # <<>>
  /\ ScriptAt(n).src[1] \notin {"http:", "https:"}
  /\ ScriptAt(n).type \in {<<>>, <<"text/javascript">>}

\* The src of a script resolved against the directory of its document.
ResolvedSrc(n) ==
  Normalize(Split(Dirname(htmlInput[n[1]].file)) \o Split(ScriptAt(n).src), FALSE)

\* Entry extraction has processed every document.
ExtractionOver == pc = "rollup" \/ (pc = "extract" /\ i > Len(htmlInput))

\* C16: after entry extraction over all documents RequiredScriptSources is
\* exactly the set of the resolved paths of the classic scripts (no type, or
\* type text/javascript) that have a src and are not remote, a path being in it
\* once however many documents name it; and no script that gave a path is
\* registered as an entry point.
C16_RequiredScriptSources ==
  ExtractionOver =>
    /\ requiredScriptSources = {ResolvedSrc(n) : n \in {x \in ScriptPositions :
                                                          ClassicLocalWithSrc(x)}}
    /\ \A e \in Range(entrypoints) : ~ClassicLocalWithSrc(e.scriptNode)
    /\ \A n \in ScriptPositions :
         ClassicLocalWithSrc(n) => n \notin {e.scriptNode : e \in Range(entrypoints)}

\* Extraction is over for two documents that name the same classic script, each
\* from its own directory, and the set holds its one path.
C16_Witness ==
  /\ ExtractionOver
  /\ Len(htmlInput) = 2
  /\ \A d \in DOMAIN htmlInput : ClassicLocalWithSrc(<<d, 1>>)
  /\ ScriptAt(<<1, 1>>).src # ScriptAt(<<2, 1>>).src
  /\ requiredScriptSources = {<< <<"third_party">>, <<"x", ".", "js">> >>}

\* The files of the output tree that are a copy of the source file at path.
CopiesOf(path) ==
  {t \in DOMAIN disk : disk[t].kind = "copy" /\ disk[t].item = path}

\* C17: by the end of a successful build every path of RequiredScriptSources
\* has been copied as it is into the output tree.
C17_RequiredScriptsCopied ==
  pc = "done" => \A path \in requiredScriptSources : CopiesOf(path) # {}

\* The files of the output tree that are the write-out of a scanned document.
WriteOutsOf(htmlFile) ==
  {t \in DOMAIN disk : disk[t].kind = "document" /\ disk[t].item = htmlFile}

\* C18: by the end of a successful build every HTML document scanned by entry
\* extraction has been written out, with the src the bundler gave to its entry
\* script nodes.
C18_ScannedDocumentsWrittenOut ==
  pc = "done" => \A d \in htmlDocuments : WriteOutsOf(htmlInput[d].file) # {}

\* The file name of the document of a scene.
SceneFile(sceneName) ==
  IF sceneName = <<>> THEN <<"index", ".", "html">> ELSE sceneName \o <<".", "html">>

\* C19: a scene whose social-sharing image is not on disk does not stop the
\* fanout: once the fanout is over, the document of the scene is there for every
\* output language, with the og:image and twitter:image content left as in the
\* template, and with the title msgid, data-static and data-version applied.
C19_AbsentImageIsSkipped ==
  pc = "extract" =>
    \A k \in DOMAIN scenes, l \in Range(langs) :
      scenes[k] \notin ogImages =>
        /\ ProdPath(l, SceneFile(scenes[k])) \in DOMAIN disk
        /\ LET document == disk[ProdPath(l, SceneFile(scenes[k]))] IN
             /\ document.kind = "scene"
             /\ document.item = scenes[k]
             /\ document.lang = l
             /\ ~document.ogImage
             /\ document.dataStatic
             /\ document.dataVersion
             /\ document.msgid =
                  (IF scenes[k] = <<>> THEN <<"santatracker">>
                   ELSE IF scenes[k] = <<"cast">> THEN <<"scene_videoscene_">> \o scenes[k]
                   ELSE <<"scene_">> \o scenes[k])

\* The fanout is over for two languages; scene icehockey has no image on disk,
\* and its two documents are written.
C19_Witness ==
  /\ pc = "extract"
  /\ Len(langs) = 2
  /\ <<"icehockey">> \in Range(scenes)
  /\ <<"icehockey">> \notin ogImages
  /\ \A l \in Range(langs) : ProdPath(l, <<"icehockey", ".", "html">>) \in DOMAIN disk


(***************************************************************************)
(* Properties of the cache of the virtual loader.                          *)
(***************************************************************************)
\* The identifiers resolveId of the virtual loader has returned: the entry ids
\* resolved as roots and the paths the compiling loader has answered for.
ReturnedByResolveId ==
  {entrypoints[k].id : k \in 1..(rootIdx - 1)}
    \cup {r.resolved : r \in {x \in resolutions : x.via = "virtual"}}

\* C20: every identifier resolveId has returned has a cache entry from the
\* moment it is returned, so no load that finds its identifier absent from the
\* cache is a load of an identifier resolveId has returned; and a load neither
\* invokes the compiling loader nor writes the cache.
C20_LoadConsultsCacheOnly ==
  /\ [](ReturnedByResolveId \subseteq DOMAIN virtualCache)
  /\ [][\A id \in loadMisses' \ loadMisses : id \notin ReturnedByResolveId]_vars
  /\ [][(firstLoad' # firstLoad \/ modules' # modules \/ loadMisses' # loadMisses) =>
          /\ virtualCache' = virtualCache
          /\ loaderCalls' = loaderCalls
          /\ inflight' = inflight]_vars

\* A module the virtual loader resolved was loaded from the cache, and a package
\* resolved by filesystem lookup was loaded without a cache entry.
C20_Witness ==
  /\ \E r \in resolutions : r.via = "virtual" /\ r.resolved \in DOMAIN firstLoad
  /\ \E r \in resolutions : r.via = "fs" /\ r.resolved \in loadMisses

\* A resolution request is handled: resolveId is entered for a root (ResolveRoot)
\* or for an import (LoaderCall).
ResolutionHandled ==
  \/ rootIdx' # rootIdx
  \/ loaderCalls' # loaderCalls

\* C21: when the first (and so every) resolution request of the build is
\* handled, the cache holds an entry for every entry-point root; resolution adds
\* cache entries for regular imports only, never for an entry id.
C21_RootsSeededBeforeResolution ==
  /\ [][ResolutionHandled =>
          \A k \in DOMAIN entrypoints : entrypoints[k].id \in DOMAIN virtualCache]_vars
  /\ [][\A id \in DOMAIN virtualCache' \ DOMAIN virtualCache :
          id \notin {entrypoints[k].id : k \in DOMAIN entrypoints}]_vars

\* The directory of the document that owns the entry point with this id.
OwningDirectory(entryId) ==
  LET e == CHOOSE x \in Range(entrypoints) : x.id = entryId
  IN Dirname(htmlInput[e.scriptNode[1]].file)

\* C22: a module id the virtual loader gave for identifier i imported from m is
\* the absolute path of i resolved against the directory of the document that
\* owns m when m is an entry id, and against the directory of m otherwise; the
\* compiling loader has output for that path, and the cache holds that output
\* under the path.
C22_RelativeResolution ==
  \A r \in resolutions :
    r.via = "virtual" =>
      /\ r.resolved =
           AbsText(Resolve(IF r.importer \in {e.id : e \in Range(entrypoints)}
                             THEN OwningDirectory(r.importer)
                             ELSE Dirname(r.importer),
                           r.id))
      /\ r.resolved \in DOMAIN sources
      /\ r.resolved \in DOMAIN virtualCache
      /\ virtualCache[r.resolved] = sources[r.resolved]

\* An import of the entry point of the page of scene a was resolved against
\* scenes/a, and an import of the module u.js against the directory of u.js.
C22_Witness ==
  /\ \E r \in resolutions :
       /\ r.via = "virtual"
       /\ r.importer \in {e.id : e \in Range(entrypoints)}
       /\ OwningDirectory(r.importer) = <<"scenes", "/", "a">>
       /\ r.resolved \in DOMAIN virtualCache
  /\ \E r \in resolutions :
       /\ r.via = "virtual"
       /\ r.importer = RepoU
       /\ r.resolved = RepoV

\* C23: when the compiling loader returns nothing for the resolved path of a
\* request, resolveId returns no module id for it (what becomes of the request
\* is left to the bundler) and the cache is left exactly as it was: no entry
\* added, removed or assigned.
C23_UnknownPathLeavesCache ==
  [][\A r \in inflight \ inflight' :
       r.resolved \notin DOMAIN sources =>
         /\ virtualCache' = virtualCache
         /\ rewritten' = rewritten
         /\ \A x \in resolutions' \ resolutions : x.via # "virtual"]_vars

\* Filesystem lookup had declined a bare import and the loader, asked for its
\* path, knew nothing: the request ended with no module id and the path is not
\* in the cache, which still holds the importer.
C23_Witness ==
  \E r \in resolutions :
    /\ r.via = "external"
    /\ ResolvedPath(r.id, r.importer) \in DOMAIN loaderCalls
    /\ ResolvedPath(r.id, r.importer) \notin DOMAIN virtualCache
    /\ r.resolved \notin DOMAIN virtualCache
    /\ r.importer \in DOMAIN virtualCache


(***************************************************************************)
(* Properties of the entry registry and of the report.                     *)
(***************************************************************************)
\* The module scripts that are not remote, among the documents scanned so far.
\* The documents whose scripts were processed: the loop over the scripts of a
\* document (line 371 on) is reached once every local stylesheet link of the
\* document was inlined.
ScannedDocuments ==
  {d \in htmlDocuments :
     \A k \in DOMAIN htmlInput[d].styles :
       ~isUrl(htmlInput[d].styles[k]) => links[<<d, k>>].inlined}

ScannedModuleScripts == {n \in LocalModuleScripts : n[1] \in ScannedDocuments}

\* Script node n comes before script node m in scan order.
ScannedBefore(n, m) == n[1] < m[1] \/ (n[1] = m[1] /\ n[2] < m[2])

\* C25: at every moment of entry extraction the registry holds one entry for
\* every module script scanned so far that is not remote, and nothing else: with n
\* such scripts it holds n entries, entry number k (from 0) has id e<k>.js, the
\* ids are pairwise distinct and follow the order of the scan; and an entry,
\* once registered, is never changed or replaced.
C25_OneEntryPerModuleScript ==
  /\ [](/\ Len(entrypoints) = Cardinality(ScannedModuleScripts)
        /\ {e.scriptNode : e \in Range(entrypoints)} = ScannedModuleScripts
        /\ \A k \in DOMAIN entrypoints :
             entrypoints[k].id = <<"e", ToString(k - 1), ".", "js">>
        /\ \A k1, k2 \in DOMAIN entrypoints :
             /\ k1 # k2 => entrypoints[k1].id # entrypoints[k2].id
             /\ k1 < k2 => ScannedBefore(entrypoints[k1].scriptNode,
                                        entrypoints[k2].scriptNode))
  /\ [][\A k \in DOMAIN entrypoints :
          k \in DOMAIN entrypoints' /\ entrypoints'[k] = entrypoints[k]]_vars

\* Two documents were scanned, each with a module script: the registry holds
\* e0.js for index.html and e1.js for the page of scene a.
C25_Witness ==
  /\ Len(htmlInput) = 2
  /\ htmlDocuments = {1, 2}
  /\ Len(entrypoints) = 2
  /\ entrypoints[1].scriptNode[1] = 1
  /\ entrypoints[2].scriptNode[1] = 2
  /\ entrypoints[2].id = <<"e", "1", ".", "js">>

\* C27: in the report at the end of the build, the proportion shown for a
\* missing message id is the number of languages missing it over the number of
\* languages loaded, as a percentage, and is never more than 100, with the
\* default-only option set or not.
C27_ProportionAtMostWhole ==
  pc = "done" =>
    \A m \in DOMAIN summary :
      /\ summary[m].ratio <= 100
      /\ summary[m].ratio =
           (2 * 100 * Cardinality(missingMessages[m]) + Len(catalog)) \div (2 * Len(catalog))


(***************************************************************************)
(* Properties of ElvesSystem (SpecElves).                                  *)
(***************************************************************************)
\* C28: for a system built with readFromScene false, after any sequence of
\* updates nextElfIndex is within 0 .. elves.length - 1, and the spawns have
\* taken the sprites in round-robin order: spawn number k (from 0) took the
\* sprite at index k mod elves.length, and the next takes the one after it.
C28_RoundRobinSpawns ==
  ~readFromScene =>
    /\ Len(elves) = 5
    /\ nextElfIndex \in 0..(Len(elves) - 1)
    /\ nextElfIndex = Len(added) % Len(elves)
    /\ \A k \in DOMAIN added : added[k] = ELVES_IMAGES[((k - 1) % 5) + 1]

\* Six spawns were made: the sixth took the first sprite again.
C28_Witness ==
  /\ ~readFromScene
  /\ Len(added) = 6
  /\ added[6] = added[1]
  /\ added[5] # added[1]
  /\ nextElfIndex = 1

\* C29: a call of update adds at most one sprite to the scene, and adds one only
\* if the seconds accumulated with this call are at least 5 more than lastSpawn
\* was, which then becomes the accumulated seconds (and stays as it was
\* otherwise); a system built with readFromScene true never adds a sprite.
C29_SpawnAtMostOncePerPeriod ==
  /\ [][/\ Len(added') <= Len(added) + 1
        /\ Len(added') = Len(added) + 1 =>
             /\ seconds' - lastSpawn >= 5
             /\ lastSpawn' = seconds'
        /\ Len(added') = Len(added) => lastSpawn' = lastSpawn]_vars
  /\ [](readFromScene => (added = <<>> /\ lastSpawn = 0))

\* A call that came 12 seconds after the latest spawn has added one sprite, and
\* calls have since been made without a spawn.
C29_Witness ==
  /\ ~readFromScene
  /\ Len(added) = 2
  /\ lastSpawn = 17
  /\ seconds = 21

\* A call has returned.
Called(fn) == args.fn = fn /\ result.kind # "none"

\* C24: for every source body s and every prefix p,
\* virtualModuleContent(p + marker + base64(s), undefined) returns exactly s,
\* at once and without going to the scene compiler; an identifier without the
\* marker that starts with neither './' nor '../' yields undefined.
C24_EmbeddedBodyReturned ==
  Called("virtualModuleContent") =>
    /\ (args.embedded /\ ~args.importer.defined) =>
         result = Returned("text", args.body)
    /\ (/\ IndexOf(args.id, Marker) = -1
        /\ ~StartsWith(args.id, <<46, 47>>)
        /\ ~StartsWith(args.id, <<46, 46, 47>>)) =>
         result = ReturnedUndefined

\* C26: msgidForScene(id, info) is 'santatracker' when id is empty or info is
\* absent, whatever info carries; otherwise info.msgid when info has a msgid
\* key, the video flag notwithstanding; otherwise scene_videoscene_<id> when
\* info.video is set; otherwise scene_<id>.
C26_MsgidForSceneCases ==
  Called("msgidForScene") =>
    LET id == args.id
        info == args.info
    IN /\ (id = <<>> \/ ~info.present) => result.value = <<"santatracker">>
       /\ (id # <<>> /\ info.present /\ info.hasMsgid) =>
            result.value = info.msgid
       /\ (id # <<>> /\ info.present /\ ~info.hasMsgid /\ info.video) =>
            result.value = <<"scene_videoscene_", id[1]>>
       /\ (id # <<>> /\ info.present /\ ~info.hasMsgid /\ ~info.video) =>
            result.value = <<"scene_", id[1]>>

\* A video scene with a msgid of its own has been named.
C26_Witness ==
  /\ Called("msgidForScene")
  /\ args.id = <<"cast">>
  /\ args.info.present /\ args.info.hasMsgid /\ args.info.video
  /\ result.value = <<"custom">>

\* C30: for a selectable Object whose shape has been set, on which select()
\* was not called before that and which was never deleted, a ghost mesh exists
\* exactly when selected is true, and the scene holds that one ghost mesh and no other; select() on a
\* selected Object and unselect() on an Object that is not selected change
\* nothing.
C30_GhostIffSelected ==
  /\ [](  (/\ object.selectable /\ object.mesh.defined
           /\ ~object.deleted /\ "select" \notin object.threw)
          => /\ object.ghost.defined <=> object.selected
             /\ object.sceneGhosts = IF object.selected THEN 1 ELSE 0)
  /\ [][ ((Select /\ object.selected) \/ (Unselect /\ ~object.selected))
          => UNCHANGED object ]_vars

\* The Object has been selected and then unselected: its mesh is visible
\* again and no ghost is left.
C30_Witness ==
  /\ object.selectable /\ object.mesh.defined /\ object.threw = {}
  /\ ~object.deleted
  /\ ~object.selected /\ object.mesh.visible
  /\ ~object.ghost.defined /\ object.sceneGhosts = 0

\* The Object has been deleted: its shape had been set (it has a body) and
\* its mesh is gone.
Deleted == object.body.defined /\ ~object.mesh.defined

\* C31: once the Object has been deleted, by delete() or by the delete of
\* update(), a later update(), select() or unselect() completes without
\* throwing on the mesh that is gone, and the Object has no ghost.
C31_CallsAfterDeleteComplete ==
  /\ [](Deleted => (~object.ghost.defined /\ object.sceneGhosts = 0))
  /\ [][ (Deleted /\ (UpdateObject \/ Select \/ Unselect))
          => object'.threw = object.threw ]_vars

====
